---- MODULE Spec2Model ----
(***************************************************************************)
(* A model of the TCP file-transfer programs of client_code.py: the three  *)
(* FileServer variants, the two FileClient variants, and the line reader   *)
(* _recv_line they share.                                                  *)
(*                                                                         *)
(* Bytes.  A byte is a one-character string; "xFF" stands for the byte     *)
(* 0xFF, which no UTF-8 text contains.  A byte string (what a socket       *)
(* carries, what a file holds, a bytearray) is kept run-length encoded: a  *)
(* sequence of runs <<byte, count>> with count >= 1 and no two adjacent    *)
(* runs of the same byte.  The encoding is canonical, so equality of the   *)
(* encodings is equality of the byte strings, and a 50000-byte payload is  *)
(* a few runs.  Text (a Python str) is a plain sequence of characters.     *)
(*                                                                         *)
(* LineSpec runs one _recv_line, byte by byte, on one input.  Spec runs    *)
(* one server with its handler threads against client processes and other  *)
(* peers: sockets are reliable ordered byte streams, sendall always        *)
(* succeeds, recv may return fewer bytes than have arrived, and a file     *)
(* read or write takes effect at once at the handle's position.            *)
(***************************************************************************)
EXTENDS Integers, Sequences, FiniteSets, TLC

\* ---------------------------------------------------------------- bytes

RECURSIVE BLen(_)
BLen(b) == IF b = <<>> THEN 0 ELSE b[1][2] + BLen(Tail(b))

BCat(a, b) ==
    IF a = <<>> THEN b
    ELSE IF b = <<>> THEN a
    ELSE IF a[Len(a)][1] = b[1][1]
         THEN SubSeq(a, 1, Len(a) - 1)
              \o << <<b[1][1], a[Len(a)][2] + b[1][2]>> >>
              \o Tail(b)
         ELSE a \o b

RECURSIVE BTake(_, _)
BTake(b, n) ==
    IF n <= 0 \/ b = <<>> THEN <<>>
    ELSE IF b[1][2] <= n THEN <<b[1]>> \o BTake(Tail(b), n - b[1][2])
    ELSE << <<b[1][1], n>> >>

RECURSIVE BDrop(_, _)
BDrop(b, n) ==
    IF n <= 0 \/ b = <<>> THEN b
    ELSE IF b[1][2] <= n THEN BDrop(Tail(b), n - b[1][2])
    ELSE << <<b[1][1], b[1][2] - n>> >> \o Tail(b)

\* The 1-based position of the first byte ch in b, 0 when there is none.
RECURSIVE BFind(_, _)
BFind(b, ch) ==
    IF b = <<>> THEN 0
    ELSE IF b[1][1] = ch THEN 1
    ELSE LET r == BFind(Tail(b), ch) IN IF r = 0 THEN 0 ELSE b[1][2] + r

BRun(ch, n) == IF n <= 0 THEN <<>> ELSE << <<ch, n>> >>

\* The plain sequence of the bytes of b.
RECURSIVE Expand(_)
Expand(b) ==
    IF b = <<>> THEN <<>>
    ELSE [i \in 1..b[1][2] |-> b[1][1]] \o Expand(Tail(b))

\* The run-length encoding of a plain sequence of bytes.
RECURSIVE Compress(_)
Compress(s) ==
    IF s = <<>> THEN <<>> ELSE BCat(BRun(s[1], 1), Compress(Tail(s)))

\* ----------------------------------------------------------------- text

NL == "\n"

WhiteSpace == {" ", "\t", "\r", NL}

\* bytes.decode(errors="ignore"): the bytes of the alphabet are ASCII, which
\* decode to themselves, and 0xFF, which is dropped.
decode(b) == SelectSeq(Expand(b), LAMBDA ch : ch # "xFF")

\* str.encode() of text over the ASCII alphabet.
encode(s) == Compress(s)

\* str.strip(): leading and trailing whitespace removed.
strip(s) ==
    LET n == Len(s)
        black(i) == s[i] \notin WhiteSpace
    IN  IF \A i \in 1..n : ~black(i) THEN <<>>
        ELSE SubSeq(s,
                CHOOSE i \in 1..n : black(i) /\ \A j \in 1..(i - 1) : ~black(j),
                CHOOSE i \in 1..n : black(i) /\ \A j \in (i + 1)..n : ~black(j))

\* str.startswith(prefix)
startswith(s, prefix) ==
    Len(prefix) <= Len(s) /\ SubSeq(s, 1, Len(prefix)) = prefix

\* str.split(" ", 1): one part when s holds no space, else the text before
\* the first space and the text after it.
split1(s) ==
    LET sp == {i \in 1..Len(s) : s[i] = " "}
    IN  IF sp = {} THEN <<s>>
        ELSE LET i == CHOOSE i \in sp : \A j \in sp : i <= j
             IN  <<SubSeq(s, 1, i - 1), SubSeq(s, i + 1, Len(s))>>

Lower == [a |-> "A", b |-> "B", c |-> "C", d |-> "D", e |-> "E", f |-> "F",
          g |-> "G", h |-> "H", i |-> "I", j |-> "J", k |-> "K", l |-> "L",
          m |-> "M", n |-> "N", o |-> "O", p |-> "P", q |-> "Q", r |-> "R",
          s |-> "S", t |-> "T", u |-> "U", v |-> "V", w |-> "W", x |-> "X",
          y |-> "Y", z |-> "Z"]

\* A comparison of the command as it was sent, with no change of case.
upper_asis(s) == s

\* str.upper()
upper(s) ==
    [i \in 1..Len(s) |-> IF s[i] \in DOMAIN Lower THEN Lower[s[i]] ELSE s[i]]

DigitVal == [d \in {"0", "1", "2", "3", "4", "5", "6", "7", "8", "9"} |->
    CASE d = "0" -> 0 [] d = "1" -> 1 [] d = "2" -> 2 [] d = "3" -> 3
      [] d = "4" -> 4 [] d = "5" -> 5 [] d = "6" -> 6 [] d = "7" -> 7
      [] d = "8" -> 8 [] d = "9" -> 9]

DigitChar == <<"0", "1", "2", "3", "4", "5", "6", "7", "8", "9">>

\* str(n) of an integer, as f"{size}" formats it.
RECURSIVE NatStr(_)
NatStr(n) ==
    IF n < 10 THEN <<DigitChar[n + 1]>>
    ELSE NatStr(n \div 10) \o <<DigitChar[(n % 10) + 1]>>

IntStr(n) == IF n < 0 THEN <<"-">> \o NatStr(0 - n) ELSE NatStr(n)

RECURSIVE DigitsVal(_, _)
DigitsVal(s, acc) ==
    IF s = <<>> THEN acc ELSE DigitsVal(Tail(s), 10 * acc + DigitVal[s[1]])

\* int(s): surrounding whitespace is ignored, one sign is allowed, and at
\* least one digit must follow; anything else raises ValueError.
IntOk(s) ==
    LET t == strip(s)
        d == IF t # <<>> /\ t[1] \in {"+", "-"} THEN Tail(t) ELSE t
    IN  d # <<>> /\ \A i \in 1..Len(d) : d[i] \in DOMAIN DigitVal

IntVal(s) ==
    LET t == strip(s)
    IN  IF t[1] = "-" THEN 0 - DigitsVal(Tail(t), 0)
        ELSE IF t[1] = "+" THEN DigitsVal(Tail(t), 0)
        ELSE DigitsVal(t, 0)

\* ---------------------------------------------------------- line reader

VARIABLES
    rlVariant,  \* which _recv_line of the file is running
    rlInput,    \* the bytes the peer sends in all, in order
    rlClosed,   \* whether the peer closes after sending them
    rlSock,     \* the bytes of rlInput not yet returned by sock.recv
    rlData,     \* data, the bytearray
    rlPc,       \* "loop" inside the while loop, "done" after the return
    rlReads,    \* how many times sock.recv(1) has returned
    rlResult    \* the returned str

rlVars ==
    <<rlVariant, rlInput, rlClosed, rlSock, rlData, rlPc, rlReads, rlResult>>

VARIABLES
    scenario, \* what the clients were started to do
    sv,       \* which FileServer of the file runs: "server1".."server3"
    cv,       \* which FileClient of the file runs: "client1", "client2"
    fs,       \* the server's file system: path -> Dir or File(bytes)
    local,    \* the clients' files: name -> File(bytes)
    conn,     \* the connections, in the order they were made
    handler,  \* the server's thread for each connection
    cl,       \* the client processes
    server    \* the server process: "listening" in start()'s accept loop,
              \* "stopped" once stop() has run, "exited" once the process
              \* has ended, "off" when no FileServer was started

fixed == <<scenario, sv, cv>>

pVars == <<fixed, fs, local, conn, handler, cl, server>>

vars == <<rlVars, pVars>>

\* The length above which the bounded readers stop: len(data) > 4096.
MaxLine == 4096

\* The five definitions of _recv_line in client_code.py.
ReaderVariants == {"client1", "server1", "server2", "server3", "client2"}

\* server1 returns data.decode(errors="ignore"); the others end in .strip().
Strips(v) == v # "server1"

\* client2's loop has no `if len(data) > 4096: break`.
Bounded(v) == v # "client2"

\* A loop that tests only for the newline.
LineEndNoEof(ch) == ch # <<>> /\ ch[1][1] = NL

\* `if not ch` / `if ch == b"\n"`: the reads that end the loop.
LineEnd(ch) == ch = <<>> \/ ch[1][1] = NL

\* `if len(data) > 4096: break`, tested after data.extend(ch).
TooLong(v, d) == Bounded(v) /\ BLen(d) > MaxLine

\* A return that never strips.
line_text_nostrip(v, d) == decode(d)

\* The return statement.
line_text(v, d) == IF Strips(v) THEN strip(decode(d)) ELSE decode(d)

\* sock.recv(1) returns: a byte has arrived, or the peer has closed.
CanRecv == rlSock # <<>> \/ rlClosed

\* One pass of `while True:`: ch = sock.recv(1), which blocks while the peer
\* has sent nothing more and has not closed, then the tests and the extend.
recv_line_step ==
    /\ rlPc = "loop"
    /\ CanRecv
    /\ LET ch == BTake(rlSock, 1)
           d  == IF LineEnd(ch) THEN rlData ELSE BCat(rlData, ch)
       IN  /\ rlSock' = BDrop(rlSock, 1)
           /\ rlReads' = rlReads + 1
           /\ rlData' = d
           /\ IF LineEnd(ch) \/ TooLong(rlVariant, d)
              THEN /\ rlPc' = "done"
                   /\ rlResult' = line_text(rlVariant, d)
              ELSE /\ rlPc' = "loop"
                   /\ rlResult' = rlResult
    /\ UNCHANGED <<rlVariant, rlInput, rlClosed, pVars>>

\* _recv_line as one function of what the peer sends: whether the call
\* returns, the bytes accumulated in data and the bytes left unread.
recv_line(stream, closed, v) ==
    LET nl == BFind(stream, NL)
    IN  IF nl # 0 /\ (~Bounded(v) \/ nl <= MaxLine + 1)
        THEN [ready |-> TRUE, data |-> BTake(stream, nl - 1),
              rest |-> BDrop(stream, nl)]
        ELSE IF Bounded(v) /\ BLen(stream) >= MaxLine + 1
        THEN [ready |-> TRUE, data |-> BTake(stream, MaxLine + 1),
              rest |-> BDrop(stream, MaxLine + 1)]
        ELSE [ready |-> closed, data |-> stream, rest |-> <<>>]

\* ------------------------------------------------------- protocol texts

tGET == <<"G", "E", "T">>
tPUT == <<"P", "U", "T">>
tMSG == <<"M", "S", "G">>
tFOUND == <<"F", "O", "U", "N", "D", " ">>
tSIZE == <<"S", "I", "Z", "E", " ">>
tNOT_FOUND == <<"N", "O", "T", "_", "F", "O", "U", "N", "D">>
tSEND_SIZE == <<"S", "E", "N", "D", "_", "S", "I", "Z", "E">>
tOK == <<"O", "K">>
tERR_Unknown ==
    <<"E", "R", "R", " ", "U", "n", "k", "n", "o", "w", "n", " ",
      "c", "o", "m", "m", "a", "n", "d">>
tERR_Invalid_filename ==
    <<"E", "R", "R", " ", "I", "n", "v", "a", "l", "i", "d", " ",
      "f", "i", "l", "e", "n", "a", "m", "e">>
tERR_Missing_size ==
    <<"E", "R", "R", " ", "M", "i", "s", "s", "i", "n", "g", " ",
      "s", "i", "z", "e">>
tERR_Invalid_size ==
    <<"E", "R", "R", " ", "I", "n", "v", "a", "l", "i", "d", " ",
      "s", "i", "z", "e">>
tERR_Incomplete ==
    <<"E", "R", "R", " ", "I", "n", "c", "o", "m", "p", "l", "e", "t", "e", " ",
      "t", "r", "a", "n", "s", "f", "e", "r">>
tReply ==
    <<"S", "e", "r", "v", "e", "r", " ", "r", "e", "p", "l", "y", ":", " ",
      "R", "e", "c", "e", "i", "v", "e", "d", " ", "y", "o", "u", "r", " ",
      "m", "e", "s", "s", "a", "g", "e", " ", "-", ">", " ">>

\* The bytes of one protocol line: text.encode() with its "\n".
Line(text) == encode(text \o <<NL>>)

\* ------------------------------------------------------------ file system

\* A path is the sequence of its components, each a text; <<>> is "/".
\* The server runs in /srv with storage_dir "sf".
Cwd == << <<"s", "r", "v">> >>
StorageDir == <<"s", "f">>

\* One component of a path being resolved: "" and "." stay, ".." goes up.
path_step(path, comp) ==
    IF comp = <<>> \/ comp = <<".">> THEN path
    ELSE IF comp = <<".", ".">>
         THEN (IF path = <<>> THEN <<>> ELSE SubSeq(path, 1, Len(path) - 1))
    ELSE Append(path, comp)

RECURSIVE path_walk(_, _, _)
path_walk(path, comp, rest) ==
    IF rest = <<>> THEN path_step(path, comp)
    ELSE IF rest[1] = "/"
         THEN path_walk(path_step(path, comp), <<>>, Tail(rest))
    ELSE path_walk(path, Append(comp, rest[1]), Tail(rest))

\* (base / pathlib.Path(name)).resolve(): an absolute name replaces base;
\* nothing in the model is a symbolic link.
resolve(base, name) ==
    IF name # <<>> /\ name[1] = "/" THEN path_walk(<<>>, <<>>, name)
    ELSE path_walk(base, <<>>, name)

\* self.storage_dir.resolve()
storage_root == resolve(Cwd, StorageDir)

\* str(path)
RECURSIVE path_join(_)
path_join(p) == IF p = <<>> THEN <<>> ELSE <<"/">> \o p[1] \o path_join(Tail(p))

path_str(p) == IF p = <<>> THEN <<"/">> ELSE path_join(p)

\* A check that compares whole components.
in_root_by_component(p) ==
    Len(p) >= Len(storage_root) /\ SubSeq(p, 1, Len(storage_root)) = storage_root

\* str(safe_path).startswith(str(storage_root))
in_root(p) == startswith(path_str(p), path_str(storage_root))

\* path.parent
parent(p) == IF p = <<>> THEN <<>> ELSE SubSeq(p, 1, Len(p) - 1)

Dir == [kind |-> "dir", data |-> <<>>]
File(data) == [kind |-> "file", data |-> data]

\* A test that accepts whatever exists.
path_exists(f, p) == p \in DOMAIN f

\* safe_path.exists() and safe_path.is_file()
is_file(f, p) == p \in DOMAIN f /\ f[p].kind = "file"

\* st_size
st_size(f, p) == BLen(f[p].data)

Ancestors(p) == {SubSeq(p, 1, k) : k \in 0..Len(p)}

\* mkdir(parents=True, exist_ok=True) raises when a component is a file.
mkdir_ok(f, d) == \A q \in Ancestors(d) : q \in DOMAIN f => f[q].kind = "dir"

mkdir(f, d) ==
    [q \in DOMAIN f \cup Ancestors(d) |-> IF q \in DOMAIN f THEN f[q] ELSE Dir]

\* open(path, "wb") raises on a directory.
open_ok(f, p) == ~(p \in DOMAIN f /\ f[p].kind = "dir")

\* An open for writing that keeps the old content.
open_keep(f, p) ==
    [q \in DOMAIN f \cup {p} |-> IF q \in DOMAIN f THEN f[q] ELSE File(<<>>)]

\* open(path, "wb"): the file is created, or truncated to nothing.
open_wb(f, p) == [q \in DOMAIN f \cup {p} |-> IF q = p THEN File(<<>>) ELSE f[q]]

\* A write that replaces what the file holds by the chunk.
write_over(f, p, off, chunk) == [f EXCEPT ![p] = File(chunk)]

\* f.write(chunk) at the handle's position: a position past the end of the
\* file (another handle truncated it) leaves a hole of zero bytes.
write_at(f, p, off, chunk) ==
    LET old == f[p].data
        new == BCat(BCat(BCat(BTake(old, off), BRun("x00", off - BLen(old))),
                         chunk),
                    BDrop(old, off + BLen(chunk)))
    IN  [f EXCEPT ![p] = File(new)]

\* A read that returns nothing once the position has moved.
read_once(f, p, off, n) == IF off > 0 THEN <<>> ELSE BTake(f[p].data, n)

\* f.read(n) at the handle's position.
read_at(f, p, off, n) == BTake(BDrop(f[p].data, off), n)

\* Number of bytes in each chunk.
BUFFER_SIZE == 4096

\* sock.recv(want) with avail bytes buffered returns what is there, up to
\* want; while short reads are left it may also return a single byte.
RecvSizes(want, avail, short) ==
    LET full == IF want < avail THEN want ELSE avail
    IN  {full} \cup (IF short > 0 /\ full > 1 THEN {1} ELSE {})

\* ------------------------------------------------------ protocol state

\* A connection: the bytes sent and not yet received in each direction,
\* whether each end has closed its socket, and every byte the server
\* (sent) and the client (given) has passed to sendall on it.
NewConn == [c2s |-> <<>>, c2sFin |-> FALSE, s2c |-> <<>>, s2cFin |-> FALSE,
            sent |-> <<>>, given |-> <<>>]

\* A handler thread: where it is ("backlog" until accepted, then "command",
\* "size", "recv", "reply", "send", "done"), the locals of _handle_client,
\* _serve_get and _serve_put, and what the claims look back at: what the
\* requested path named when _serve_get tested it (kind), whether the
\* handler ended by an exception (raised), whether another handle wrote to
\* the file it is sending (disturbed), and the payload bytes it has
\* received (got).
NewHandler ==
    [pc |-> "backlog", cmd |-> <<>>, filename |-> <<>>, safe_path |-> <<>>,
     size |-> 0, remaining |-> 0, off |-> 0, short |-> 0,
     size_line |-> <<>>, kind |-> "unseen", raised |-> FALSE,
     disturbed |-> FALSE, got |-> <<>>]

\* A client process: where it is, the calls it has yet to make, the
\* connection and the locals of the call it is in, and the outcome of each
\* call it has finished.
NewClient(jobs) ==
    [pc |-> "idle", jobs |-> jobs, c |-> 0, path |-> <<>>, size |-> 0,
     remaining |-> 0, off |-> 0, short |-> 0, results |-> <<>>]

Procs == {1, 2}

Conns == 1..Len(conn)

\* How many times one receive loop is handed a single byte although more
\* were asked for and had arrived.
MaxShortReads == 1

\* Python's None, for an argument left out.
None == <<"None">>

\* The server's file system at the start: the storage root /srv/sf holding
\* the files a and b and the directory sub, and outside it the sibling
\* directory /srv/sf2 with the file x and the file /srv/k.
pSrv == <<"s", "r", "v">>
pSf2 == <<"s", "f", "2">>
OldA == BCat(BCat(BRun("o", 1), BRun("l", 8198)), BRun("d", 1))
OldB == BCat(BRun("B", 4096), BRun("e", 1))
InitFs ==
    (<<>> :> Dir) @@ (<<pSrv>> :> Dir) @@ (storage_root :> Dir)
    @@ (Append(storage_root, <<"s", "u", "b">>) :> Dir)
    @@ (Append(storage_root, <<"a">>) :> File(OldA))
    @@ (Append(storage_root, <<"b">>) :> File(OldB))
    @@ (<<pSrv, pSf2>> :> Dir)
    @@ (<<pSrv, pSf2, <<"x">>>> :> File(BRun("x", 7)))
    @@ (<<pSrv, <<"k">>>> :> File(BRun("k", 3)))

NoScenario == [kind |-> "none", sv |-> "server3", cv |-> "client1",
               local |-> <<>>, jobs |-> [p \in Procs |-> <<>>]]

\* Nothing of the protocol runs while the line reader is examined alone.
ProtocolIdle ==
    /\ scenario = NoScenario
    /\ sv = NoScenario.sv
    /\ cv = NoScenario.cv
    /\ fs = InitFs
    /\ local = NoScenario.local
    /\ conn = <<>>
    /\ handler = <<>>
    /\ cl = [p \in Procs |-> NewClient(<<>>)]
    /\ server = "off"

\* What the reader is run on, as <<the bytes sent, whether the peer then
\* closes>>: every stream of at most MaxShortLine bytes over LineAlphabet,
\* closing or not; and long runs of "A" whose length is near the 4096
\* limit, alone or followed by one more byte, and the 5000 "A"s of
\* test_recv_line_long_line, each closing.
MaxShortLine == 3
MaxOver == 2
LineAlphabet == {"a", " ", NL, "xFF"}
SeqsUpTo(A, n) == UNION {[1..k -> A] : k \in 0..n}
LineInputs ==
    {<<Compress(s), c>> : s \in SeqsUpTo(LineAlphabet, MaxShortLine),
                          c \in BOOLEAN}
    \cup {<<BCat(BRun("A", k), Compress(t)), TRUE>> :
            k \in (MaxLine - 1)..(MaxLine + MaxOver),
            t \in {<<>>, <<NL>>, <<"a">>}}
    \cup {<<BRun("A", 5000), TRUE>>}

LineInit ==
    /\ rlVariant \in ReaderVariants
    /\ \E in \in LineInputs : rlInput = in[1] /\ rlClosed = in[2]
    /\ rlSock = rlInput
    /\ rlData = <<>>
    /\ rlPc = "loop"
    /\ rlReads = 0
    /\ rlResult = <<>>
    /\ ProtocolIdle

LineNext == recv_line_step

LineSpec == LineInit /\ [][LineNext]_vars

\* The stepped loop and the function agree.
LineReaderAgrees ==
    LET r == recv_line(rlInput, rlClosed, rlVariant)
    IN  /\ rlPc = "done" =>
              r.ready /\ rlData = r.data /\ rlSock = r.rest
                      /\ rlResult = line_text(rlVariant, r.data)
        /\ (rlPc = "loop" /\ rlSock = <<>> /\ ~rlClosed) => ~r.ready

\* ------------------------------------------------------------ the server

\* A request for a whole buffer whatever remains.
recv_size_whole(remaining) == BUFFER_SIZE

\* min(BUFFER_SIZE, remaining)
recv_size(remaining) ==
    IF BUFFER_SIZE < remaining THEN BUFFER_SIZE ELSE remaining

\* A sendall on a socket that the handlers share, the one of the first
\* connection, in place of the handler's own.
sendall_shared(cn, c, bytes) ==
    [cn EXCEPT ![1].s2c = BCat(@, bytes), ![1].sent = BCat(@, bytes)]

\* client_sock.sendall(bytes)
sendall(cn, c, bytes) ==
    [cn EXCEPT ![c].s2c = BCat(@, bytes), ![c].sent = BCat(@, bytes)]

\* The handlers that are sending the file at path p, or hold it open for
\* writing: a write to p reaches what they have yet to read, or what they
\* have written.
Disturb(h, p, me) ==
    [d \in DOMAIN h |->
        IF d # me /\ h[d].pc \in {"send", "recv", "reply"} /\ h[d].safe_path = p
        THEN [h[d] EXCEPT !.disturbed = TRUE] ELSE h[d]]

\* ------------------------------------------------------------ the server

\* An accept loop that handles each connection itself before it accepts
\* the next.
can_accept_serial(c) ==
    /\ server = "listening"
    /\ handler[c].pc = "backlog"
    /\ \A d \in Conns : d < c => handler[d].pc \in {"done", "refused"}

\* Whether the accept loop can take connection c: the loop is running and
\* c is the oldest connection waiting. The loop hands each connection to a
\* thread of its own and goes back to accept(), so what the handlers of
\* earlier connections are doing plays no part.
can_accept(c) ==
    /\ server = "listening"
    /\ handler[c].pc = "backlog"
    /\ \A d \in Conns : d < c => handler[d].pc # "backlog"

\* FileServer.start: the accept loop takes the oldest waiting connection
\* and starts _handle_client on it in a thread of its own.
accept(c) ==
    /\ can_accept(c)
    /\ handler' = [handler EXCEPT ![c].pc = "command"]
    /\ UNCHANGED <<rlVars, fixed, server, fs, local, conn, cl>>

\* One response line, after which the handler reads the next command line.
respond_again(c, rest, text, h) ==
    /\ conn' = [sendall(conn, c, Line(text)) EXCEPT ![c].c2s = rest]
    /\ handler' = [handler EXCEPT ![c] = [h EXCEPT !.pc = "command"]]
    /\ fs' = fs

\* One response line, after which the handler returns and `with
\* client_sock:` closes the socket.
respond(c, rest, text, h) ==
    /\ conn' = [sendall(conn, c, Line(text)) EXCEPT ![c].c2s = rest,
                                                     ![c].s2cFin = TRUE]
    /\ handler' = [handler EXCEPT ![c] = [h EXCEPT !.pc = "done"]]
    /\ fs' = fs

\* _serve_get up to its loop: the path, the two refusals, the header.
serve_get(c, rest, h0) ==
    LET safe_path == resolve(storage_root, h0.filename)
        h == [h0 EXCEPT !.safe_path = safe_path,
                        !.kind = IF safe_path \in DOMAIN fs
                                 THEN fs[safe_path].kind ELSE "none"]
    IN  IF ~in_root(safe_path)
        THEN respond(c, rest, tERR_Invalid_filename, h)
        ELSE IF ~is_file(fs, safe_path)
        THEN respond(c, rest, tNOT_FOUND, h)
        ELSE LET size == st_size(fs, safe_path)
             IN  /\ conn' = [sendall(conn, c, Line(tFOUND \o IntStr(size)))
                                EXCEPT ![c].c2s = rest]
                 /\ handler' = [handler EXCEPT ![c] =
                        [h EXCEPT !.pc = "send", !.size = size, !.off = 0]]
                 /\ fs' = fs

\* A _serve_put that waits for the size line without asking for it.
serve_put_silent(c, rest, h) ==
    /\ conn' = [conn EXCEPT ![c].c2s = rest]
    /\ handler' = [handler EXCEPT ![c] = [h EXCEPT !.pc = "size"]]
    /\ fs' = fs

\* _serve_put up to its first read: the request for the size.
serve_put(c, rest, h) ==
    /\ conn' = [sendall(conn, c, Line(tSEND_SIZE)) EXCEPT ![c].c2s = rest]
    /\ handler' = [handler EXCEPT ![c] = [h EXCEPT !.pc = "size"]]
    /\ fs' = fs

\* A reply that leaves the message out.
handle_message_plain(c, rest, h) == respond(c, rest, tReply, h)

\* _handle_message (the second server only)
handle_message(c, rest, h) == respond(c, rest, tReply \o h.filename, h)

\* Which FileServer serves connection c: the one that is run, or, where
\* the same bytes are sent to a first and to a third server side by side,
\* the first for the first connection and the third for the second.
server_of(c) ==
    IF scenario.kind = "twin" /\ c > 1 THEN "server3" ELSE sv

\* An argument with the whitespace around it removed.
argument_stripped(parts) ==
    IF Len(parts) > 1 THEN strip(parts[2]) ELSE <<>>

\* `filename = parts[1] if len(parts) > 1 else ""`
argument(parts) == IF Len(parts) > 1 THEN parts[2] ELSE <<>>

\* _handle_client: the command line is read, which blocks until a line, the
\* end of the stream or an over-long line has arrived, and dispatched.
handle_client(c) ==
    /\ handler[c].pc = "command"
    /\ LET r == recv_line(conn[c].c2s, conn[c].c2sFin, server_of(c))
           command_line == line_text(server_of(c), r.data)
           parts == split1(strip(command_line))
           command == upper(parts[1])
           h == [handler[c] EXCEPT
                    !.cmd = command,
                    !.filename = argument(parts)]
       IN  /\ r.ready
           /\ IF command_line = <<>>
              THEN /\ conn' = [conn EXCEPT ![c].c2s = r.rest,
                                           ![c].s2cFin = TRUE]
                   /\ handler' = [handler EXCEPT ![c].pc = "done"]
                   /\ fs' = fs
              ELSE IF command = tGET THEN serve_get(c, r.rest, h)
              ELSE IF command = tPUT THEN serve_put(c, r.rest, h)
              ELSE IF command = tMSG /\ server_of(c) = "server2"
                   THEN handle_message(c, r.rest, h)
              ELSE respond(c, r.rest, tERR_Unknown, h)
    /\ UNCHANGED <<rlVars, fixed, server, local, cl>>

\* _serve_get's loop: one f.read(BUFFER_SIZE) and the sendall of what it
\* returned; an empty read ends the loop and the handler.
serve_get_loop(c) ==
    /\ handler[c].pc = "send"
    /\ LET h == handler[c]
           chunk == read_at(fs, h.safe_path, h.off, BUFFER_SIZE)
       IN  IF chunk = <<>>
           THEN /\ conn' = [conn EXCEPT ![c].s2cFin = TRUE]
                /\ handler' = [handler EXCEPT ![c].pc = "done"]
           ELSE /\ conn' = sendall(conn, c, chunk)
                /\ handler' = [handler EXCEPT ![c].off = @ + BLen(chunk)]
    /\ UNCHANGED <<rlVars, fixed, server, fs, local, cl>>

\* A test that accepts every line that is not empty.
has_size_any(size_line) == size_line # <<>>

\* `if not size_line or not size_line.startswith("SIZE ")`, negated.
has_size(size_line) == size_line # <<>> /\ startswith(size_line, tSIZE)

\* _serve_put from the size line to the open of the target: the two
\* refusals, int(), the path, mkdir of the parents and open(.., "wb"); an
\* exception of mkdir or open ends the handler in _handle_client's except.
serve_put_size(c) ==
    /\ handler[c].pc = "size"
    /\ LET r == recv_line(conn[c].c2s, conn[c].c2sFin, server_of(c))
           size_line == line_text(server_of(c), r.data)
           parts == split1(strip(size_line))
           h == [handler[c] EXCEPT !.size_line = size_line]
           safe_path == resolve(storage_root, h.filename)
           h2 == [h EXCEPT !.safe_path = safe_path]
       IN  /\ r.ready
           /\ IF ~has_size(size_line)
              THEN respond(c, r.rest, tERR_Missing_size, h)
              ELSE IF Len(parts) < 2 \/ ~IntOk(parts[2])
              THEN respond(c, r.rest, tERR_Invalid_size, h)
              ELSE IF ~mkdir_ok(fs, parent(safe_path))
              THEN /\ conn' = [conn EXCEPT ![c].c2s = r.rest,
                                           ![c].s2cFin = TRUE]
                   /\ handler' = [handler EXCEPT ![c] =
                          [h2 EXCEPT !.pc = "done", !.raised = TRUE]]
                   /\ fs' = fs
              ELSE IF ~open_ok(fs, safe_path)
              THEN /\ conn' = [conn EXCEPT ![c].c2s = r.rest,
                                           ![c].s2cFin = TRUE]
                   /\ handler' = [handler EXCEPT ![c] =
                          [h2 EXCEPT !.pc = "done", !.raised = TRUE]]
                   /\ fs' = mkdir(fs, parent(safe_path))
              ELSE /\ conn' = [conn EXCEPT ![c].c2s = r.rest]
                   /\ handler' = Disturb(
                          [handler EXCEPT ![c] =
                              [h2 EXCEPT !.pc = "recv",
                                        !.size = IntVal(parts[2]),
                                        !.remaining = IntVal(parts[2]),
                                        !.off = 0,
                                        !.short = MaxShortReads]],
                          safe_path, c)
                   /\ fs' = open_wb(mkdir(fs, parent(safe_path)), safe_path)
    /\ UNCHANGED <<rlVars, fixed, server, local, cl>>

\* _serve_put's loop while remaining > 0: one recv of at most
\* min(BUFFER_SIZE, remaining) bytes, which blocks until bytes or the end
\* of the stream arrive; an empty chunk breaks, any other is written.
serve_put_loop(c) ==
    /\ handler[c].pc = "recv"
    /\ handler[c].remaining > 0
    /\ conn[c].c2s # <<>> \/ conn[c].c2sFin
    /\ LET h == handler[c]
           want == recv_size(h.remaining)
       IN  IF conn[c].c2s = <<>>
           THEN /\ handler' = [handler EXCEPT ![c].pc = "reply"]
                /\ UNCHANGED <<conn, fs>>
           ELSE \E k \in RecvSizes(want, BLen(conn[c].c2s), h.short) :
                LET chunk == BTake(conn[c].c2s, k)
                IN  /\ conn' = [conn EXCEPT ![c].c2s = BDrop(@, k)]
                    /\ fs' = write_at(fs, h.safe_path, h.off, chunk)
                    /\ handler' = Disturb(
                          [handler EXCEPT
                              ![c].off = @ + k,
                              ![c].remaining = @ - k,
                              ![c].got = BCat(@, chunk),
                              ![c].short =
                                  IF k < want /\ k < BLen(conn[c].c2s)
                                  THEN @ - 1 ELSE @],
                          h.safe_path, c)
    /\ UNCHANGED <<rlVars, fixed, server, local, cl>>

\* _serve_put after its loop: the file is closed and the status sent.
serve_put_finish(c) ==
    /\ \/ handler[c].pc = "reply"
       \/ handler[c].pc = "recv" /\ handler[c].remaining <= 0
    /\ respond(c, conn[c].c2s,
               IF handler[c].remaining = 0 THEN tOK ELSE tERR_Incomplete,
               handler[c])
    /\ UNCHANGED <<rlVars, fixed, server, local, cl>>

\* An exception that is not caught in the handler's thread, leaves the
\* socket open and brings the accept loop down with it.
handler_crashes(c) ==
    /\ scenario.kind = "fault"
    /\ handler[c].pc \in {"command", "size", "recv", "reply", "send"}
    /\ handler' = [handler EXCEPT ![c].pc = "done", ![c].raised = TRUE]
    /\ server' = "stopped"
    /\ UNCHANGED <<rlVars, fixed, fs, local, conn, cl>>

\* An exception in a handler that has been started and has not returned:
\* a recv, a sendall or a file operation raises, `except Exception` in
\* _handle_client catches it and `with client_sock:` closes the socket.
handler_raises(c) ==
    /\ scenario.kind = "fault"
    /\ handler[c].pc \in {"command", "size", "recv", "reply", "send"}
    /\ handler' = [handler EXCEPT ![c].pc = "done", ![c].raised = TRUE]
    /\ conn' = [conn EXCEPT ![c].s2cFin = TRUE]
    /\ UNCHANGED <<rlVars, fixed, server, fs, local, cl>>

\* KeyboardInterrupt in start(), or stop() from elsewhere: the accept loop
\* ends and stop() closes the listening socket, which refuses the
\* connections that were waiting to be accepted.
keyboard_interrupt ==
    /\ scenario.kind = "stop"
    /\ server = "listening"
    /\ server' = "stopped"
    /\ handler' = [c \in DOMAIN handler |->
                     IF handler[c].pc = "backlog"
                     THEN [handler[c] EXCEPT !.pc = "refused"]
                     ELSE handler[c]]
    /\ conn' = [c \in DOMAIN conn |->
                  IF handler[c].pc = "backlog"
                  THEN [conn[c] EXCEPT !.s2cFin = TRUE] ELSE conn[c]]
    /\ UNCHANGED <<rlVars, fixed, fs, local, cl>>

\* start() has returned and the main module ends: the handler threads were
\* made with daemon=True, so the interpreter exits without waiting for
\* them and the ones still running end where they are, their sockets
\* closed by the system.
process_exit ==
    /\ server = "stopped"
    /\ server' = "exited"
    /\ handler' = [c \in DOMAIN handler |->
                     IF handler[c].pc \in {"done", "refused"}
                     THEN handler[c]
                     ELSE [handler[c] EXCEPT !.pc = "killed"]]
    /\ conn' = [c \in DOMAIN conn |-> [conn[c] EXCEPT !.s2cFin = TRUE]]
    /\ UNCHANGED <<rlVars, fixed, fs, local, cl>>

\* ----------------------------------------------------------- the clients

\* One call a client process makes: upload_file(local, remote),
\* download_file(remote, local), send_message_once(remote), or, for a peer
\* that is not FileClient, one send of bytes followed by a close (raw) or
\* by nothing more (stall), or the answer of a scripted socket that stands
\* in for the server (serve), or another program's write of new content to
\* a local file (rewrite).
Job(op, loc, remote, bytes) ==
    [op |-> op, local |-> loc, remote |-> remote, bytes |-> bytes]

Upload(loc, remote) == Job("upload", loc, remote, <<>>)
Download(remote, loc) == Job("download", loc, remote, <<>>)
Message(text) == Job("message", None, text, <<>>)
Raw(bytes) == Job("raw", None, None, bytes)
Stall(bytes) == Job("stall", None, None, bytes)
Serve(bytes) == Job("serve", None, None, bytes)
Rewrite(loc, bytes) == Job("rewrite", loc, None, bytes)

\* The outcome of a finished call: the call, its connection (0 when it made
\* none), the last line it read, and for a download whether remaining
\* reached 0.
Result(job, c, line, complete) ==
    [job |-> job, c |-> c, line |-> line, complete |-> complete]

\* sock.sendall(bytes)
csend(cn, c, bytes) ==
    [cn EXCEPT ![c].c2s = BCat(@, bytes), ![c].given = BCat(@, bytes)]

\* self._connect(): the new connection waits in the listen queue; when the
\* listening socket is closed the connection is refused.
connect(p, job, bytes, pc, path, size) ==
    /\ conn' = Append(conn, [csend(<<NewConn>>, 1, bytes)[1] EXCEPT
                                !.s2cFin = server \in {"stopped", "exited"}])
    /\ handler' = Append(handler,
                         IF server \in {"stopped", "exited"}
                         THEN [NewHandler EXCEPT !.pc = "refused"]
                         ELSE NewHandler)
    /\ cl' = [cl EXCEPT ![p].pc = pc, ![p].c = Len(conn) + 1,
                        ![p].path = path, ![p].size = size]

\* A return out of `with self._connect() as sock:`: the socket is closed
\* and the process goes on to its next call.
return(p, cn, line, complete) ==
    /\ conn' = [cn EXCEPT ![cl[p].c].c2sFin = TRUE]
    /\ cl' = [cl EXCEPT
                ![p].pc = "idle",
                ![p].jobs = Tail(@),
                ![p].results =
                    Append(@, Result(Head(cl[p].jobs), cl[p].c, line, complete))]

Current(p, op) ==
    cl[p].pc = "idle" /\ cl[p].jobs # <<>> /\ Head(cl[p].jobs).op = op

\* upload_file up to the PUT line: a path that is no file ends the call.
upload_file(p) ==
    /\ Current(p, "upload")
    /\ LET job == Head(cl[p].jobs)
           remote_name == IF job.remote = None THEN job.local ELSE job.remote
       IN  IF ~is_file(local, job.local)
           THEN /\ cl' = [cl EXCEPT
                            ![p].jobs = Tail(@),
                            ![p].results = Append(@, Result(job, 0, <<>>, FALSE))]
                /\ UNCHANGED <<conn, handler>>
           ELSE connect(p, job, Line(tPUT \o <<" ">> \o remote_name),
                        "put_response", job.local, st_size(local, job.local))
    /\ UNCHANGED <<rlVars, fixed, server, fs, local>>

\* An upload_file that sends its SIZE line whatever the response is.
upload_file_response_eager(p) ==
    /\ cl[p].pc = "put_response"
    /\ LET c == cl[p].c
           r == recv_line(conn[c].s2c, conn[c].s2cFin, cv)
           cn == [conn EXCEPT ![c].s2c = r.rest]
       IN  /\ r.ready
           /\ conn' = csend(cn, c, Line(tSIZE \o IntStr(cl[p].size)))
           /\ cl' = [cl EXCEPT ![p].pc = "put_send",
                               ![p].remaining = cl[p].size,
                               ![p].off = 0]
    /\ UNCHANGED <<rlVars, fixed, server, fs, local, handler>>

\* upload_file from the first response to the SIZE line.
upload_file_response(p) ==
    /\ cl[p].pc = "put_response"
    /\ LET c == cl[p].c
           r == recv_line(conn[c].s2c, conn[c].s2cFin, cv)
           response == line_text(cv, r.data)
           cn == [conn EXCEPT ![c].s2c = r.rest]
       IN  /\ r.ready
           /\ IF response # tSEND_SIZE
              THEN return(p, cn, response, FALSE)
              ELSE /\ conn' = csend(cn, c, Line(tSIZE \o IntStr(cl[p].size)))
                   /\ cl' = [cl EXCEPT ![p].pc = "put_send",
                                       ![p].remaining = cl[p].size,
                                       ![p].off = 0]
    /\ UNCHANGED <<rlVars, fixed, server, fs, local, handler>>

\* Whether upload_file's loop is left before the next f.read: the first
\* client loops `while remaining > 0`, the second `while True`.
upload_done(v, remaining) == v = "client1" /\ remaining <= 0

\* One pass of upload_file's loop: f.read(BUFFER_SIZE) and the sendall of
\* the chunk; the loop ends on its condition or an empty chunk.
upload_file_loop(p) ==
    /\ cl[p].pc = "put_send"
    /\ LET c == cl[p].c
           chunk == read_at(local, cl[p].path, cl[p].off, BUFFER_SIZE)
       IN  IF upload_done(cv, cl[p].remaining) \/ chunk = <<>>
           THEN /\ cl' = [cl EXCEPT ![p].pc = "put_status"]
                /\ conn' = conn
           ELSE /\ conn' = csend(conn, c, chunk)
                /\ cl' = [cl EXCEPT ![p].off = @ + BLen(chunk),
                                    ![p].remaining = @ - BLen(chunk)]
    /\ UNCHANGED <<rlVars, fixed, server, fs, local, handler>>

\* upload_file's last read: the status line.
upload_file_status(p) ==
    /\ cl[p].pc = "put_status"
    /\ LET c == cl[p].c
           r == recv_line(conn[c].s2c, conn[c].s2cFin, cv)
       IN  /\ r.ready
           /\ return(p, [conn EXCEPT ![c].s2c = r.rest],
                     line_text(cv, r.data), FALSE)
    /\ UNCHANGED <<rlVars, fixed, server, fs, local, handler>>

\* download_file up to the GET line.
download_file(p) ==
    /\ Current(p, "download")
    /\ LET job == Head(cl[p].jobs)
           local_path == IF job.local = None THEN job.remote ELSE job.local
       IN  connect(p, job, Line(tGET \o <<" ">> \o job.remote),
                   "get_response", local_path, 0)
    /\ UNCHANGED <<rlVars, fixed, server, fs, local>>

\* A download_file that opens the local file before it looks at the
\* response line.
download_file_response_eager(p) ==
    /\ cl[p].pc = "get_response"
    /\ LET c == cl[p].c
           r == recv_line(conn[c].s2c, conn[c].s2cFin, cv)
           response == line_text(cv, r.data)
           parts == split1(strip(response))
           cn == [conn EXCEPT ![c].s2c = r.rest]
       IN  /\ r.ready
           /\ local' = open_wb(local, cl[p].path)
           /\ IF \/ response = <<>>
                 \/ startswith(response, tNOT_FOUND)
                 \/ ~startswith(response, tFOUND)
                 \/ Len(parts) < 2 \/ ~IntOk(parts[2])
              THEN return(p, cn, response, FALSE)
              ELSE /\ conn' = cn
                   /\ cl' = [cl EXCEPT ![p].pc = "get_recv",
                                       ![p].size = IntVal(parts[2]),
                                       ![p].remaining = IntVal(parts[2]),
                                       ![p].off = 0,
                                       ![p].short = MaxShortReads]
    /\ UNCHANGED <<rlVars, fixed, server, fs, handler>>

\* download_file from the response line to the open of the local file.
download_file_response(p) ==
    /\ cl[p].pc = "get_response"
    /\ LET c == cl[p].c
           r == recv_line(conn[c].s2c, conn[c].s2cFin, cv)
           response == line_text(cv, r.data)
           parts == split1(strip(response))
           cn == [conn EXCEPT ![c].s2c = r.rest]
       IN  /\ r.ready
           /\ IF \/ response = <<>>
                 \/ startswith(response, tNOT_FOUND)
                 \/ ~startswith(response, tFOUND)
                 \/ Len(parts) < 2 \/ ~IntOk(parts[2])
              THEN return(p, cn, response, FALSE) /\ local' = local
              ELSE /\ conn' = cn
                   /\ cl' = [cl EXCEPT ![p].pc = "get_recv",
                                       ![p].size = IntVal(parts[2]),
                                       ![p].remaining = IntVal(parts[2]),
                                       ![p].off = 0,
                                       ![p].short = MaxShortReads]
                   /\ local' = open_wb(local, cl[p].path)
    /\ UNCHANGED <<rlVars, fixed, server, fs, handler>>

\* One pass of download_file's loop while remaining > 0: one recv of at
\* most min(BUFFER_SIZE, remaining) bytes; an empty chunk breaks.
download_file_loop(p) ==
    /\ cl[p].pc = "get_recv"
    /\ cl[p].remaining > 0
    /\ LET c == cl[p].c
           want == recv_size(cl[p].remaining)
       IN  /\ conn[c].s2c # <<>> \/ conn[c].s2cFin
           /\ IF conn[c].s2c = <<>>
              THEN /\ cl' = [cl EXCEPT ![p].pc = "get_end"]
                   /\ UNCHANGED <<conn, local>>
              ELSE \E k \in RecvSizes(want, BLen(conn[c].s2c), cl[p].short) :
                   /\ conn' = [conn EXCEPT ![c].s2c = BDrop(@, k)]
                   /\ local' = write_at(local, cl[p].path, cl[p].off,
                                        BTake(conn[c].s2c, k))
                   /\ cl' = [cl EXCEPT
                                ![p].off = @ + k,
                                ![p].remaining = @ - k,
                                ![p].short = IF k < want /\ k < BLen(conn[c].s2c)
                                             THEN @ - 1 ELSE @]
    /\ UNCHANGED <<rlVars, fixed, server, fs, handler>>

\* A download_file that reports every download as complete.
download_file_end_ok(p) ==
    /\ \/ cl[p].pc = "get_end"
       \/ cl[p].pc = "get_recv" /\ cl[p].remaining <= 0
    /\ return(p, conn, <<>>, TRUE)
    /\ UNCHANGED <<rlVars, fixed, server, fs, local, handler>>

\* download_file after its loop.
download_file_end(p) ==
    /\ \/ cl[p].pc = "get_end"
       \/ cl[p].pc = "get_recv" /\ cl[p].remaining <= 0
    /\ return(p, conn, <<>>, cl[p].remaining = 0)
    /\ UNCHANGED <<rlVars, fixed, server, fs, local, handler>>

\* send_message_once up to the MSG line.
send_message_once(p) ==
    /\ Current(p, "message")
    /\ connect(p, Head(cl[p].jobs), Line(tMSG \o <<" ">> \o Head(cl[p].jobs).remote),
               "msg_reply", <<>>, 0)
    /\ UNCHANGED <<rlVars, fixed, server, fs, local>>

\* send_message_once's read of the reply.
send_message_reply(p) ==
    /\ cl[p].pc = "msg_reply"
    /\ LET c == cl[p].c
           r == recv_line(conn[c].s2c, conn[c].s2cFin, cv)
       IN  /\ r.ready
           /\ return(p, [conn EXCEPT ![c].s2c = r.rest],
                     line_text(cv, r.data), FALSE)
    /\ UNCHANGED <<rlVars, fixed, server, fs, local, handler>>

\* A peer that is not FileClient connects and sends its bytes at once.
raw_send(p) ==
    /\ Current(p, "raw") \/ Current(p, "stall")
    /\ connect(p, Head(cl[p].jobs), Head(cl[p].jobs).bytes, "raw_sent", <<>>, 0)
    /\ UNCHANGED <<rlVars, fixed, server, fs, local>>

\* That peer closes its socket.
raw_close(p) ==
    /\ cl[p].pc = "raw_sent"
    /\ Head(cl[p].jobs).op = "raw"
    /\ return(p, conn, <<>>, FALSE)
    /\ UNCHANGED <<rlVars, fixed, server, fs, local, handler>>

\* Another program replaces the content of a local file: upload_file
\* takes st_size, and later reads the file it opens, without holding the
\* file in between.
local_changes(p) ==
    /\ Current(p, "rewrite")
    /\ local' = [local EXCEPT
                    ![Head(cl[p].jobs).local] = File(Head(cl[p].jobs).bytes)]
    /\ cl' = [cl EXCEPT
                ![p].jobs = Tail(@),
                ![p].results =
                    Append(@, Result(Head(cl[p].jobs), 0, <<>>, FALSE))]
    /\ UNCHANGED <<rlVars, fixed, server, fs, conn, handler>>

\* A scripted socket in place of the server answers the oldest waiting
\* connection with its bytes and then reports end of stream; sent, which
\* records what a FileServer handler sent, stays empty.
mock_reply(p) ==
    /\ Current(p, "serve")
    /\ server = "off"
    /\ \E c \in Conns :
        /\ handler[c].pc = "backlog"
        /\ \A d \in Conns : d < c => handler[d].pc # "backlog"
        /\ conn' = [conn EXCEPT
                       ![c].s2c = BCat(@, Head(cl[p].jobs).bytes),
                       ![c].s2cFin = TRUE]
        /\ handler' = [handler EXCEPT ![c].pc = "done"]
        /\ cl' = [cl EXCEPT
                    ![p].jobs = Tail(@),
                    ![p].results =
                        Append(@, Result(Head(cl[p].jobs), c, <<>>, FALSE))]
    /\ UNCHANGED <<rlVars, fixed, server, fs, local>>

\* ------------------------------------------------------- what is run

Servers == {"server1", "server2", "server3"}
Clients == {"client1", "client2"}

\* The payloads: the first n bytes of 50000 bytes that differ at both ends
\* and on both sides of the first chunk boundary.
Pattern ==
    BCat(BCat(BCat(BCat(BCat(BRun("h", 1), BRun("m", 4094)), BRun("b", 1)),
                   BRun("c", 1)), BRun("m", 45902)), BRun("t", 1))
Payload(n) == BTake(Pattern, n)
Sizes == {0, 1, 4095, 4096, 4097, 50000}

\* File names, as the texts the peers send.
nA == <<"a">>
nN == <<"n">>
nNo == <<"n", "o">>
nSub == <<"s", "u", "b">>
nSubM == <<"s", "u", "b", "/", "m">>
nSubUpA == <<"s", "u", "b", "/", ".", ".", "/", "a">>
nUpE == <<".", ".", "/", "e">>
nUpK == <<".", ".", "/", "k">>
nUpSf2X == <<".", ".", "/", "s", "f", "2", "/", "x">>
nAbsK == <<"/", "s", "r", "v", "/", "k">>
nAB == <<"a", "/", "b">>
nNewM == <<"n", "e", "w", "/", "m">>
nP == <<"p">>
nD == <<"d">>
nQ == <<"q">>
nHi == <<"h", "i">>
nB == <<"b">>
nE == <<"e">>

\* upload_file then download_file of one remote name, by one process: the
\* remote name and the local name of the download, None where the call
\* leaves the argument out.
RoundTripNames ==
    {<<nA, nD>>, <<nN, nD>>, <<nSubM, nD>>, <<None, None>>, <<nUpE, nD>>}
RoundTrips ==
    {[kind |-> "roundtrip", sv |-> s, cv |-> c,
      local |-> (nP :> File(Payload(n))),
      jobs |-> << <<Upload(nP, rn[1]),
                    Download(IF rn[1] = None THEN nP ELSE rn[1], rn[2])>>,
                  <<>> >>] :
        s \in Servers, c \in Clients, n \in Sizes, rn \in RoundTripNames}

\* One GET: by download_file, and by a peer that sends the line and closes.
GetNames ==
    {nA, nNo, nSub, <<>>, nSubUpA, nAB, nUpE, nUpK, nUpSf2X, nAbsK}
Downloads ==
    {[kind |-> "download", sv |-> s, cv |-> c, local |-> <<>>,
      jobs |-> << <<Download(name, nD)>>, <<>> >>] :
        s \in Servers, c \in Clients, name \in GetNames}
Gets ==
    {[kind |-> "get", sv |-> s, cv |-> "client1", local |-> <<>>,
      jobs |-> << <<Raw(Line(verb \o <<" ">> \o name))>>, <<>> >>] :
        s \in Servers, verb \in {tGET, <<"g", "e", "t">>}, name \in GetNames}

\* One PUT by a peer that sends the PUT line, a size line and some payload
\* bytes at once and then closes.
PutNames == {nA, nN, nSubM, nNewM, nSub, nAB, <<>>, nUpE, nUpK, nUpSf2X}
SizeLines ==
    {<<>>,
     <<"S", "I", "Z", " ", "5">>,
     <<"S", "I", "Z", "E", " ", "x">>,
     <<"S", "I", "Z", "E", " ">>,
     <<" ", "S", "I", "Z", "E", " ", "5">>,
     <<"S", "I", "Z", "E", " ", "5">>,
     <<"S", "I", "Z", "E", " ", " ", "3">>,
     <<"S", "I", "Z", "E", " ", "3", " ">>,
     <<"S", "I", "Z", "E", " ", "-", "1">>,
     <<"S", "I", "Z", "E", " ", "+", "2">>,
     <<"S", "I", "Z", "E", " ", "0">>,
     <<"S", "I", "Z", "E", " ", "1">>,
     <<"S", "I", "Z", "E", " ", "5", "x">>,
     <<"S", "I", "Z", "E", " ", "5", "0", "0", "0">>,
     <<"s", "i", "z", "e", " ", "5">>,
     <<"S", "I", "Z", "E">>}
PutSent == {0, 2, 5, 4096, 4097, 5000}
Puts ==
    {[kind |-> "put", sv |-> s, cv |-> "client1", local |-> <<>>,
      jobs |-> << <<Raw(BCat(BCat(Line(tPUT \o <<" ">> \o name), Line(sl)),
                             Payload(k)))>>,
                  <<>> >>] :
        s \in Servers, name \in PutNames, sl \in SizeLines, k \in PutSent}

\* Other things a peer may send before it closes.
OddInputs ==
    {<<>>,
     Compress(<<NL>>),
     Compress(<<" ", NL>>),
     Compress(<<"F", "O", "O", NL>>),
     Compress(<<"P", "U", "T", " ", "a">>),
     Compress(<<"P", "U", "T", " ", "a", NL, "S", "I", "Z", "E", " ", "2">>),
     Compress(<<"p", "u", "t", " ", "a", NL, "S", "I", "Z", "E", " ", "2", NL, "h", "m">>),
     Compress(<<"M", "S", "G", " ", "h", "i", NL>>),
     Compress(<<"G", "E", "T", " ", "a">>),
     Compress(<<"xFF", NL>>),
     Compress(<<" ", "G", "E", "T", " ", "a", NL>>),
     Compress(<<"G", "e", "t", " ", "a", NL>>),
     Compress(<<"G", "E", "T", "X", " ", "a", NL>>),
     Compress(<<"G", "E", "T", NL>>),
     Compress(<<"F", "O", "O", " ", "a", " ", "b", NL,
                "S", "I", "Z", "E", " ", "2", NL>>),
     Compress(<<"P", "u", "T", " ", "n", NL,
                "S", "I", "Z", "E", " ", "2", NL, "h", "m">>),
     Compress(<<"m", "S", "g", " ", "h", "i", NL>>),
     Compress(<<"M", "S", "G", NL>>),
     Compress(<<"G", "E", "T", " ", "n", "o", NL, "G", "E", "T", " ", "a", NL>>),
     Compress(<<"M", "S", "G", " ", "h", "i", NL, "G", "E", "T", " ", "a", NL>>),
     Compress(<<"P", "U", "T", " ", "n", NL, "S", "I", "Z", "E", " ", "2", NL,
                "h", "m", "G", "E", "T", " ", "a", NL>>),
     Compress(<<"G", "E", "T", " ", " ", "a", " ", NL>>),
     Compress(<<"M", "S", "G", " ", " ", "h", "i", " ", " ", NL>>),
     Compress(<<"P", "U", "T", " ", "n", " ", NL, "S", "I", "Z", "E", " ", "2", NL,
                "h", "m">>),
     BCat(BRun("F", 5000), BRun(NL, 1))}
Odds ==
    {[kind |-> "odd", sv |-> s, cv |-> "client1", local |-> <<>>,
      jobs |-> << <<Raw(b)>>, <<>> >>] : s \in Servers, b \in OddInputs}

\* A download of the file a while another process uploads to the name a.
RaceSizes == {0, 5000}
Races ==
    {[kind |-> "race", sv |-> s, cv |-> c,
      local |-> (nP :> File(Payload(n))),
      jobs |-> << <<Download(nA, nD)>>, <<Upload(nP, nA)>> >>] :
        s \in Servers, c \in Clients, n \in RaceSizes}

\* Messages, which only the second client sends, and an upload of a local
\* file that does not exist.
Messages ==
    {[kind |-> "message", sv |-> s, cv |-> "client2", local |-> <<>>,
      jobs |-> << <<Message(nHi), Message(<<>>)>>, <<>> >>] : s \in Servers}
NoFiles ==
    {[kind |-> "nofile", sv |-> s, cv |-> c, local |-> <<>>,
      jobs |-> << <<Upload(nQ, None)>>, <<>> >>] :
        s \in Servers, c \in Clients}

\* Two downloads at once, of the files a and b, one by download_file and
\* one by a peer that sends the line and closes.
TwoGets ==
    {[kind |-> "twoget", sv |-> s, cv |-> c, local |-> <<>>,
      jobs |-> << <<Download(nA, nD)>>,
                  <<Raw(Line(tGET \o <<" ">> \o nB))>> >>] :
        s \in Servers, c \in Clients}

\* download_file against a socket that answers with scripted bytes, with
\* and without a local file already at the destination.
OldD == BRun("q", 3)
MockReplies ==
    {<<>>,
     Compress(<<"N", "O", "T", "_", "F", "O", "U", "N", "D", NL>>),
     Compress(<<"N", "O", "T", "_", "F", "O", "U", "N", "D">>),
     Compress(<<"F", "O", "U", "N", "D", " ", "x", NL>>),
     Compress(<<"F", "O", "U", "N", "D", " ", NL>>),
     Compress(<<"F", "O", "U", "N", "D", NL>>),
     Compress(<<"F", "O", "U", "N", "D", " ", "3", NL, "a", "b", "c">>),
     Compress(<<"F", "O", "U", "N", "D", " ", "5", NL, "a", "b">>),
     Compress(<<"F", "O", "U", "N", "D", " ", "0", NL>>),
     Compress(<<"F", "O", "U", "N", "D", " ", "-", "1", NL, "a">>),
     Compress(<<"F", "O", "U", "N", "D", " ", "3">>),
     Compress(<<"f", "o", "u", "n", "d", " ", "3", NL, "a", "b", "c">>),
     Compress(<<" ", "F", "O", "U", "N", "D", " ", "3", NL, "a", "b", "c">>),
     Compress(<<"O", "K", NL>>),
     Compress(<<NL>>),
     Compress(<<"E", "R", "R", " ", "F", "O", "U", "N", "D", " ", "3", NL>>)}
Mocks ==
    {[kind |-> "mock", sv |-> "server3", cv |-> c, local |-> l,
      jobs |-> << <<Download(nA, nD)>>, <<Serve(r)>> >>] :
        c \in Clients, l \in {<<>>, (nD :> File(OldD))}, r \in MockReplies}

\* upload_file of a local file of 5 bytes against a socket that answers
\* with scripted bytes.
UploadReplies ==
    {<<>>,
     Compress(<<"S", "E", "N", "D", "_", "S", "I", "Z", "E", NL>>),
     Compress(<<"S", "E", "N", "D", "_", "S", "I", "Z", "E", NL, "O", "K", NL>>),
     Compress(<<"S", "E", "N", "D", "_", "S", "I", "Z", "E">>),
     Compress(<<" ", "S", "E", "N", "D", "_", "S", "I", "Z", "E", " ", NL>>),
     Compress(<<"s", "e", "n", "d", "_", "s", "i", "z", "e", NL>>),
     Compress(<<"S", "E", "N", "D", "_", "S", "I", "Z", "E", "x", NL>>),
     Compress(<<"S", "E", "N", "D", NL>>),
     Compress(<<"E", "R", "R", " ", "x", NL>>),
     Compress(<<"O", "K", NL>>),
     Compress(<<NL, "S", "E", "N", "D", "_", "S", "I", "Z", "E", NL>>)}
MockUploads ==
    {[kind |-> "mock", sv |-> "server3", cv |-> c,
      local |-> (nP :> File(Payload(5))),
      jobs |-> << <<Upload(nP, nN)>>, <<Serve(r)>> >>] :
        c \in Clients, r \in UploadReplies}

\* Two peers whose handlers are under way at once: a PUT and a GET. In the
\* first set a handler may raise at any point, in the second the server
\* may be stopped at any point, in the third the PUT peer sends less than
\* it declared and keeps its connection open.
Faults ==
    {[kind |-> "fault", sv |-> s, cv |-> "client1", local |-> <<>>,
      jobs |-> << <<Raw(BCat(BCat(Line(tPUT \o <<" ">> \o nN),
                                  Line(tSIZE \o NatStr(5000))),
                             Payload(5000)))>>,
                  <<Raw(Line(tGET \o <<" ">> \o nA))>> >>] : s \in Servers}
Stops ==
    {[f EXCEPT !.kind = "stop"] : f \in Faults}
Stalls ==
    {[kind |-> "stall", sv |-> s, cv |-> c, local |-> <<>>,
      jobs |-> << <<Stall(BCat(BCat(Line(tPUT \o <<" ">> \o nN),
                                    Line(tSIZE \o NatStr(5))),
                               Payload(2)))>>,
                  <<Download(nB, nD)>> >>] : s \in Servers, c \in Clients}

\* An upload of a local file of 5000 bytes that another program rewrites,
\* to fewer bytes or to more, at any point before or during the call.
LocalChanges ==
    {[kind |-> "localchange", sv |-> s, cv |-> c,
      local |-> (nP :> File(Payload(5000))),
      jobs |-> << <<Upload(nP, nN)>>, <<Rewrite(nP, b)>> >>] :
        s \in Servers, c \in Clients, b \in {Payload(2), Payload(9000)}}

\* Two peers that PUT to the name n at once, 5000 bytes and 4097 other
\* bytes.
OtherPayload == BRun("z", 4097)
TwoPuts ==
    {[kind |-> "twoput", sv |-> s, cv |-> "client1", local |-> <<>>,
      jobs |-> << <<Raw(BCat(BCat(Line(tPUT \o <<" ">> \o nN),
                                  Line(tSIZE \o NatStr(5000))),
                             Payload(5000)))>>,
                  <<Raw(BCat(BCat(Line(tPUT \o <<" ">> \o nN),
                                  Line(tSIZE \o NatStr(4097))),
                             OtherPayload))>> >>] : s \in Servers}

\* The same bytes sent to the first server, on the first connection, and
\* to the third, on the second.
TwinInputs ==
    {Compress(<<" ", NL>>),
     Compress(<<" ">>),
     Compress(<<"G", "E", "T", " ", "a", NL>>),
     Compress(<<"G", "E", "T", " ", "n", "o", " ", NL>>),
     Compress(<<"F", "O", "O", NL>>),
     Compress(<<"P", "U", "T", " ", "n", NL, "S", "I", "Z", "E", " ", " ", NL>>),
     Compress(<<"P", "U", "T", " ", "n", NL, "S", "I", "Z", "E", " ", NL>>),
     Compress(<<"P", "U", "T", " ", "n", NL, " ", "S", "I", "Z", "E", " ", "2", NL,
                "h", "m">>),
     Compress(<<"P", "U", "T", " ", "n", NL, "S", "I", "Z", "E", " ", "2", " ", NL,
                "h", "m">>),
     Compress(<<"P", "U", "T", " ", "n", NL, "S", "I", "Z", "E", " ", "2", NL,
                "h", "m">>)}
Twins ==
    {[kind |-> "twin", sv |-> "server1", cv |-> "client1", local |-> <<>>,
      jobs |-> << <<Raw(b)>>, <<Raw(b)>> >>] : b \in TwinInputs}

Scenarios ==
    Twins \cup MockUploads \cup TwoPuts \cup LocalChanges \cup RoundTrips \cup Downloads \cup Gets \cup Puts \cup Odds \cup Races
    \cup Messages \cup NoFiles \cup TwoGets \cup Mocks \cup Faults
    \cup Stops \cup Stalls

LineIdle ==
    /\ rlVariant = "server3"
    /\ rlInput = <<>>
    /\ rlClosed = FALSE
    /\ rlSock = <<>>
    /\ rlData = <<>>
    /\ rlPc = "done"
    /\ rlReads = 0
    /\ rlResult = <<>>

Init ==
    /\ LineIdle
    /\ scenario \in Scenarios
    /\ sv = scenario.sv
    /\ cv = scenario.cv
    /\ fs = InitFs
    /\ local = scenario.local
    /\ conn = <<>>
    /\ handler = <<>>
    /\ cl = [p \in Procs |-> NewClient(scenario.jobs[p])]
    /\ server = IF scenario.kind = "mock" THEN "off" ELSE "listening"

Next ==
    \/ \E c \in Conns : accept(c)
    \/ \E c \in Conns : handle_client(c)
    \/ \E c \in Conns : serve_get_loop(c)
    \/ \E c \in Conns : serve_put_size(c)
    \/ \E c \in Conns : serve_put_loop(c)
    \/ \E c \in Conns : serve_put_finish(c)
    \/ \E c \in Conns : handler_raises(c)
    \/ keyboard_interrupt
    \/ process_exit
    \/ \E p \in Procs :
        \/ upload_file(p)
        \/ upload_file_response(p)
        \/ upload_file_loop(p)
        \/ upload_file_status(p)
        \/ download_file(p)
        \/ download_file_response(p)
        \/ download_file_loop(p)
        \/ download_file_end(p)
        \/ send_message_once(p)
        \/ send_message_reply(p)
        \/ raw_send(p)
        \/ raw_close(p)
        \/ mock_reply(p)
        \/ local_changes(p)

Spec == Init /\ [][Next]_vars

\* ------------------------------------------------- claims: line reader

\* The position of the first newline of the input, 0 when it has none.
FirstNL == BFind(rlInput, NL)

\* C8: for a stream that delivers more than 4096 bytes before any newline,
\* _recv_line returns exactly the first 4096 bytes, and in every state of
\* every reader the bytearray holds at most 4096 bytes.
C8_LongLineCutAt4096 ==
    /\ BLen(rlData) <= MaxLine
    /\ (/\ rlPc = "done"
        /\ BLen(BTake(rlInput, IF FirstNL = 0 THEN BLen(rlInput)
                                              ELSE FirstNL - 1)) > MaxLine)
       => /\ rlResult = decode(BTake(rlInput, MaxLine))
          /\ Len(rlResult) = MaxLine

Header(c) == decode(BTake(conn[c].sent, BFind(conn[c].sent, NL) - 1))
AnsweredFound(c) == startswith(Header(c), tFOUND)
Declared(c) == IntVal(SubSeq(Header(c), Len(tFOUND) + 1, Len(Header(c))))
PayloadSent(c) == BDrop(conn[c].sent, BFind(conn[c].sent, NL))

\* What the client has sent on connection c after its command line: the
\* text of the next line, and the bytes after that line.
AfterCommand(c) == BDrop(conn[c].given, BFind(conn[c].given, NL))
SizeText(c) == decode(BTake(AfterCommand(c), BFind(AfterCommand(c), NL) - 1))
SizeArg(c) == SubSeq(SizeText(c), Len(tSIZE) + 1, Len(SizeText(c)))
PayloadGiven(c) == BDrop(AfterCommand(c), BFind(AfterCommand(c), NL))

\* The path a handler's filename argument resolves to.
Target(c) == resolve(storage_root, handler[c].filename)

\* Whether the handler of c has dispatched its command.
Dispatched(c) == handler[c].pc \notin {"backlog", "command"}

HasDotDotSlash(name) ==
    \E i \in 1..(Len(name) - 2) : SubSeq(name, i, i + 2) = <<".", ".", "/">>

\* The remote name and the local name a call works on.
RemoteName(job) == IF job.remote = None THEN job.local ELSE job.remote
LocalName(job) == IF job.local = None THEN job.remote ELSE job.local

C3_IncompleteTransfer ==
    \A c \in Conns :
        (/\ handler[c].cmd = tPUT /\ handler[c].pc = "done"
         /\ ~handler[c].raised
         /\ conn[c].c2sFin
         /\ BFind(AfterCommand(c), NL) # 0
         /\ startswith(SizeText(c), tSIZE) /\ IntOk(SizeArg(c))
         /\ IntVal(SizeArg(c)) > 0
         /\ BLen(PayloadGiven(c)) < IntVal(SizeArg(c))
         /\ \A d \in Conns : d # c => Target(d) # Target(c))
        => /\ conn[c].sent = BCat(Line(tSEND_SIZE), Line(tERR_Incomplete))
           /\ is_file(fs, Target(c))
           /\ fs[Target(c)].data = PayloadGiven(c)

\* The first server was sent SIZE 5000 and 4097 bytes for the name a,
\* which held 8200 bytes: it answered ERR Incomplete transfer and a holds
\* the 4097 bytes.
C3_Witness ==
    \E c \in Conns :
        /\ sv = "server1"
        /\ handler[c].cmd = tPUT /\ handler[c].filename = nA
        /\ handler[c].pc = "done" /\ handler[c].size = 5000
        /\ conn[c].sent = BCat(Line(tSEND_SIZE), Line(tERR_Incomplete))
        /\ fs[Target(c)].data = Payload(4097)

\* C4 as claimed: no path outside the storage root is created or changed,
\* and a PUT whose filename holds `../` and resolves outside the storage
\* root is answered ERR Invalid filename and nothing else.
C4_PutStaysInRoot ==
    /\ \A path \in DOMAIN fs :
          ~in_root_by_component(path)
          => path \in DOMAIN InitFs /\ fs[path] = InitFs[path]
    /\ \A c \in Conns :
          (/\ handler[c].cmd = tPUT /\ handler[c].pc = "done"
           /\ HasDotDotSlash(handler[c].filename)
           /\ ~in_root_by_component(Target(c)))
          => conn[c].sent = Line(tERR_Invalid_filename)

\* C5 as claimed: a GET whose filename resolves to a path that is not
\* inside the storage root is answered ERR Invalid filename and nothing
\* else: no FOUND header, no payload.
C5_GetOutsideRootRefused ==
    \A c \in Conns :
        (/\ handler[c].cmd = tGET /\ Dispatched(c)
         /\ ~in_root_by_component(Target(c)))
        => /\ conn[c].sent = Line(tERR_Invalid_filename)
           /\ handler[c].pc = "done"

\* C6: a GET whose filename resolves inside the storage root to a path
\* that names nothing or a directory when the handler tests it (the empty
\* filename names the storage root) is answered with the line NOT_FOUND and
\* no other byte, and the handler has returned and closed the connection.
C6_NotFound ==
    \A c \in Conns :
        (/\ handler[c].cmd = tGET /\ Dispatched(c)
         /\ in_root_by_component(Target(c))
         /\ handler[c].kind \in {"none", "dir"})
        => /\ conn[c].sent = Line(tNOT_FOUND)
           /\ handler[c].pc = "done"
           /\ conn[c].s2cFin

\* A GET with the empty filename, which names the storage root, has been
\* answered NOT_FOUND.
C6_Witness ==
    \E c \in Conns :
        /\ handler[c].cmd = tGET /\ handler[c].filename = <<>>
        /\ handler[c].kind = "dir" /\ Target(c) = storage_root
        /\ handler[c].pc = "done"
        /\ conn[c].sent = Line(tNOT_FOUND)

\* C7: in the step in which _serve_put reads the line after SEND_SIZE (a
\* step that leaves the size line behind with no exception raised and the
\* process still running): if
\* the line is empty or does not start with `SIZE ` the server sends ERR
\* Missing size, and if it starts with `SIZE ` and the rest is no integer
\* the server sends ERR Invalid size; either way the handler returns, has
\* read no payload byte (the bytes after the line stay unread) and the
\* file system is as it was.
C7_SizeLineRefused ==
    [][\A c \in Conns :
          (/\ handler[c].pc = "size" /\ handler'[c].pc # "size"
           /\ ~handler'[c].raised /\ handler'[c].pc # "killed")
          => LET line == handler'[c].size_line
                 nl == BFind(conn[c].c2s, NL)
                 refused(text) ==
                     /\ conn'[c].sent = BCat(conn[c].sent, Line(text))
                     /\ conn'[c].s2cFin
                     /\ handler'[c].pc = "done"
                     /\ handler'[c].got = <<>>
                     /\ nl \in 1..MaxLine
                        => conn'[c].c2s = BDrop(conn[c].c2s, nl)
                     /\ fs' = fs
             IN  /\ (line = <<>> \/ ~startswith(line, tSIZE))
                    => refused(tERR_Missing_size)
                 /\ (/\ startswith(line, tSIZE)
                     /\ ~IntOk(SubSeq(line, Len(tSIZE) + 1, Len(line))))
                    => refused(tERR_Invalid_size)]_vars

\* A PUT whose size line was `SIZE x` has been answered ERR Invalid size,
\* with the payload bytes the peer sent after the line left unread and the
\* file system as at the start.
C7_Witness ==
    \E c \in Conns :
        /\ handler[c].cmd = tPUT /\ handler[c].pc = "done"
        /\ handler[c].size_line = <<"S", "I", "Z", "E", " ", "x">>
        /\ conn[c].sent = BCat(Line(tSEND_SIZE), Line(tERR_Invalid_size))
        /\ conn[c].c2s # <<>>
        /\ fs = InitFs

\* ------------------------------------------------- claims on concurrency

\* Whether a is a prefix of b.
BPrefix(a, b) == BTake(b, BLen(a)) = a

\* Whether the handler of c is a GET of an existing file under the storage
\* root and has got past its header.
FoundGet(c) ==
    /\ handler[c].cmd = tGET
    /\ handler[c].pc \in {"send", "done"}
    /\ in_root(handler[c].safe_path)
    /\ is_file(fs, handler[c].safe_path)

\* What a GET of the file at the handler's path is to receive: the FOUND
\* line with the file's size, then the file's bytes.
GetReply(c) ==
    BCat(Line(tFOUND \o IntStr(st_size(fs, handler[c].safe_path))),
         fs[handler[c].safe_path].data)

\* C11: when two connections have GET handlers on different existing
\* files and no connection has sent a PUT, each of the two has been sent a
\* prefix of `FOUND <size>` and its own file's bytes, as long as its read
\* offset says and whatever the other has reached; a handler that is
\* sending can take its next step; and one that has returned without an
\* exception has sent the header and the whole file.
C11_ConcurrentGets ==
    \A c, d \in Conns :
        (/\ c # d /\ FoundGet(c) /\ FoundGet(d)
         /\ handler[c].safe_path # handler[d].safe_path
         /\ \A e \in Conns : handler[e].cmd # tPUT)
        => /\ AnsweredFound(c)
           /\ BPrefix(conn[c].sent, GetReply(c))
           /\ BLen(PayloadSent(c)) = handler[c].off
           /\ Declared(c) = st_size(fs, handler[c].safe_path)
           /\ handler[c].pc = "send" => ENABLED serve_get_loop(c)
           /\ (handler[c].pc = "done" /\ ~handler[c].raised)
              => conn[c].sent = GetReply(c)

\* The GET on the later connection has returned with the whole of its file
\* sent while the GET on the earlier connection, of another file, is part
\* of the way through its own.
C11_Witness ==
    \E c, d \in Conns :
        /\ c < d /\ FoundGet(c) /\ FoundGet(d)
        /\ handler[c].safe_path # handler[d].safe_path
        /\ \A e \in Conns : handler[e].cmd # tPUT
        /\ handler[c].pc = "send"
        /\ handler[c].off > 0 /\ handler[c].off < handler[c].size
        /\ handler[d].pc = "done" /\ conn[d].sent = GetReply(d)

\* ------------------------------------------------- claims on download_file

\* The bytes that have been put on connection c for the client to read: a
\* handler's, or the scripted answer once it has been given.
Delivered(c) ==
    IF scenario.kind = "mock"
    THEN IF handler[c].pc = "done" THEN scenario.jobs[2][1].bytes ELSE <<>>
    ELSE conn[c].sent

\* The header line download_file gets from them: what the client's
\* _recv_line returns for their first line.
ResponseLine(c) == line_text(cv, recv_line(Delivered(c), TRUE, cv).data)

\* A line that starts with `FOUND ` and whose remainder int() accepts.
FoundHeader(line) ==
    /\ startswith(line, tFOUND)
    /\ IntOk(SubSeq(line, Len(tFOUND) + 1, Len(line)))

\* C12: but for another program's rewrite, the local files change only in
\* a step of a download_file whose
\* header line starts with `FOUND ` and goes on with an integer, and only
\* at that call's destination; in the step in which download_file has its
\* response line, a line of that form leaves the destination an empty
\* file, and any other line (NOT_FOUND, the empty line, anything else)
\* ends the call with the local files as they were.
C12_LocalFileOnlyAfterFound ==
    [][/\ (/\ local' # local
           /\ \A p \in Procs : ~Current(p, "rewrite"))
          => \E p \in Procs :
                /\ cl[p].pc \in {"get_response", "get_recv"}
                /\ FoundHeader(ResponseLine(cl[p].c))
                /\ \A q \in (DOMAIN local \cup DOMAIN local') \ {cl[p].path} :
                      /\ q \in DOMAIN local /\ q \in DOMAIN local'
                      /\ local'[q] = local[q]
       /\ \A p \in Procs :
             (cl[p].pc = "get_response" /\ cl'[p].pc # "get_response")
             => IF FoundHeader(ResponseLine(cl[p].c))
                THEN /\ cl'[p].pc = "get_recv"
                     /\ is_file(local', cl[p].path)
                     /\ local'[cl[p].path].data = <<>>
                ELSE /\ cl'[p].pc = "idle"
                     /\ local' = local]_vars

\* A download_file whose response line was NOT_FOUND has returned, and the
\* file that was at its destination before the call is as it was.
C12_Witness ==
    \E p \in Procs :
        /\ cl[p].results # <<>>
        /\ cl[p].results[1].job.op = "download"
        /\ cl[p].results[1].line = tNOT_FOUND
        /\ cl[p].results[1].job.local \in DOMAIN scenario.local
        /\ local = scenario.local

\* ------------------------------------------------ claims on the dispatch

\* The first line the peer of c has sent, as the server's _recv_line
\* returns it, and the first space-delimited token of that line trimmed.
FirstLine(c) ==
    line_text(server_of(c),
              recv_line(conn[c].given, TRUE, server_of(c)).data)
FirstToken(c) == split1(strip(FirstLine(c)))[1]
FirstArg(c) ==
    IF Len(split1(strip(FirstLine(c)))) > 1
    THEN split1(strip(FirstLine(c)))[2] ELSE <<>>

\* Whether tok is word in some mix of upper and lower case.
Spells(tok, word) ==
    /\ Len(tok) = Len(word)
    /\ \A i \in 1..Len(tok) :
          \/ tok[i] = word[i]
          \/ tok[i] \in DOMAIN Lower /\ Lower[tok[i]] = word[i]

\* Whether the server that is run has a command of that name: GET and PUT
\* in all three, MSG in the second.
Recognised(tok) ==
    \/ Spells(tok, tGET)
    \/ Spells(tok, tPUT)
    \/ sv = "server2" /\ Spells(tok, tMSG)

\* The step in which the handler of c gets its first line and acts on it,
\* with no exception raised and the process running.
Dispatch(c) ==
    /\ handler[c].pc = "command" /\ handler'[c].pc # "command"
    /\ ~handler'[c].raised /\ handler'[c].pc # "killed"

BeforeNewline(c) ==
    IF BFind(conn[c].given, NL) = 0 THEN conn[c].given
    ELSE BTake(conn[c].given, BFind(conn[c].given, NL) - 1)

\* C14: once a handler has returned (with no exception), it has sent no
\* byte if the peer sent no byte before its first newline, and it has sent
\* a response if the peer sent at least one byte before its first newline.
C14_SilentOnlyOnEmpty ==
    \A c \in Conns :
        (/\ scenario.kind # "mock"
         /\ handler[c].pc = "done" /\ ~handler[c].raised)
        => /\ BeforeNewline(c) = <<>> => conn[c].sent = <<>>
           /\ BeforeNewline(c) # <<>> => conn[c].sent # <<>>

\* ---------------------------------------------- claims on the PUT payload

\* The argument of the size line the handler of c read, and whether the
\* handler took the line for a valid size and went on to receive.
SizeRead(c) ==
    SubSeq(handler[c].size_line, Len(tSIZE) + 1, Len(handler[c].size_line))
Receiving(c) ==
    /\ handler[c].cmd = tPUT
    /\ handler[c].pc \in {"recv", "reply", "done"}
    /\ ~handler[c].raised
    /\ has_size(handler[c].size_line)
    /\ IntOk(SizeRead(c))

\* The bytes the peer of c sent after its size line: none when the line
\* was ended by the end of the stream.
Following(c) ==
    IF BFind(AfterCommand(c), NL) = 0 THEN <<>> ELSE PayloadGiven(c)

\* C15: for a PUT whose size line gave n >= 0 and whose target was opened:
\* the bytes received are a prefix of the bytes after the size line, at
\* most n of them, and the bytes after them are still unread; once the
\* handler has returned, its status is OK exactly when n bytes were
\* received, and then the file holds the first n bytes after the size
\* line (when no other connection has opened the same file); with n = 0 the status is OK, the file is empty and no payload
\* byte was read; and one pass of the loop takes at most min(4096,
\* remaining) bytes.
C15_ReceivesDeclaredSize ==
    /\ [](\A c \in Conns :
            (Receiving(c) /\ IntVal(SizeRead(c)) >= 0)
            => LET n == IntVal(SizeRead(c))
                   got == handler[c].got
                   status == BDrop(conn[c].sent, BLen(Line(tSEND_SIZE)))
               IN  /\ BLen(got) <= n
                   /\ BPrefix(got, Following(c))
                   /\ conn[c].c2s = BDrop(Following(c), BLen(got))
                   /\ handler[c].pc = "done"
                      => /\ status \in {Line(tOK), Line(tERR_Incomplete)}
                         /\ status = Line(tOK) <=> BLen(got) = n
                         /\ (/\ status = Line(tOK)
                             /\ \A d \in Conns \ {c} :
                                   ~(Receiving(d) /\ Target(d) = Target(c)))
                            => fs[Target(c)].data = BTake(Following(c), n)
                         /\ n = 0 => status = Line(tOK) /\ got = <<>>)
    /\ [][\A c \in Conns :
            (/\ Receiving(c) /\ IntVal(SizeRead(c)) >= 0
             /\ handler[c].pc = "recv")
            => LET left == IntVal(SizeRead(c)) - BLen(handler[c].got)
                   taken == BLen(handler'[c].got) - BLen(handler[c].got)
               IN  /\ taken <= BUFFER_SIZE
                   /\ taken <= left]_vars

\* A PUT of n with `SIZE 5` and 4097 payload bytes sent after it has been
\* answered OK: the file holds the first 5 of them and the others are
\* unread.
C15_Witness ==
    \E c \in Conns :
        /\ Receiving(c) /\ handler[c].pc = "done"
        /\ IntVal(SizeRead(c)) = 5
        /\ BLen(Following(c)) = 4097
        /\ conn[c].sent = BCat(Line(tSEND_SIZE), Line(tOK))
        /\ fs[Target(c)].data = Payload(5)
        /\ BLen(conn[c].c2s) = 4092

\* ------------------------------------------------- claims on the ordering

\* The bytes the peer of c sent after its command line: none when the line
\* was ended by the end of the stream.
AfterFirstLine(c) ==
    IF BFind(conn[c].given, NL) = 0 THEN <<>> ELSE AfterCommand(c)

\* The FOUND line of a GET handler that is sending.
FoundLine(c) == Line(tFOUND \o IntStr(handler[c].size))

\* C16: on each connection: nothing is sent while the command line is
\* unread; while a PUT waits for its size line, SEND_SIZE and nothing else
\* has been sent, nothing after the command line has been read and no
\* payload byte received; while the receive loop runs, still nothing but
\* SEND_SIZE has been sent; a GET that is sending has sent its FOUND line
\* and after it as many bytes as it has read from the file. And in the
\* steps: a handler that has not parsed a valid size line changes no
\* file; payload bytes are received only in the loop; a status follows
\* SEND_SIZE only when the loop has ended or the size line was refused.
C16_OrderedEvents ==
    /\ [](\A c \in Conns :
            /\ handler[c].pc \in {"backlog", "command"}
               => conn[c].sent = <<>> /\ conn[c].c2s = conn[c].given
            /\ handler[c].pc = "size"
               => /\ conn[c].sent = Line(tSEND_SIZE)
                  /\ conn[c].c2s = AfterFirstLine(c)
                  /\ handler[c].got = <<>>
            /\ handler[c].pc \in {"recv", "reply"}
               => conn[c].sent = Line(tSEND_SIZE)
            /\ handler[c].pc = "send"
               => /\ BPrefix(FoundLine(c), conn[c].sent)
                  /\ BLen(conn[c].sent) = BLen(FoundLine(c)) + handler[c].off)
    /\ [][\A c \in Conns :
            LET line == handler'[c].size_line
                valid ==
                    /\ has_size(line)
                    /\ IntOk(SubSeq(line, Len(tSIZE) + 1, Len(line)))
                mine == handler'[c] # handler[c] /\ server' = server
            IN  /\ (mine /\ handler[c].pc \in {"backlog", "command"})
                   => fs' = fs
                /\ (mine /\ handler[c].pc = "size" /\ fs' # fs)
                   => valid
                /\ handler'[c].pc = "recv" => valid
                /\ handler'[c].got # handler[c].got
                   => handler[c].pc = "recv" /\ valid
                /\ (conn[c].sent = Line(tSEND_SIZE)
                    /\ conn'[c].sent # conn[c].sent)
                   => \/ handler[c].pc = "size" /\ ~valid
                      \/ handler[c].pc = "reply"
                      \/ /\ handler[c].pc = "recv"
                         /\ handler[c].remaining <= 0]_vars

\* A PUT is part of the way through its payload: SEND_SIZE is all that
\* has been sent, and the bytes received so far are fewer than declared.
C16_Witness ==
    \E c \in Conns :
        /\ handler[c].cmd = tPUT /\ handler[c].pc = "recv"
        /\ handler[c].got # <<>> /\ handler[c].remaining > 0
        /\ conn[c].sent = Line(tSEND_SIZE)

\* ------------------------------------------------ claims on the listener

\* C17: a handler that has returned has closed its socket, whether it
\* returned or raised; and in the step in which a handler raises (a recv,
\* a sendall or a file operation fails, at any point from the command line
\* to the last chunk) that handler ends with its socket closed, every
\* other handler and connection is as it was, the accept loop is still
\* running, and a connection that waits is still accepted.
C17_ExceptionEndsOneHandler ==
    /\ [](\A c \in Conns : handler[c].pc = "done" => conn[c].s2cFin)
    /\ [][\A c \in Conns :
            (handler'[c].raised /\ ~handler[c].raised)
            => /\ handler'[c].pc = "done"
               /\ conn'[c].s2cFin
               /\ server' = server /\ server' = "listening"
               /\ \A d \in Conns \ {c} :
                     /\ handler'[d] = handler[d]
                     /\ conn'[d] = conn[d]
                     /\ can_accept(d) => can_accept(d)']_vars

\* The handler of a PUT raised part of the way through its payload; the
\* GET on the connection after it has been answered with the whole file
\* and has returned.
C17_Witness ==
    \E c, d \in Conns :
        /\ c < d
        /\ handler[c].raised /\ handler[c].cmd = tPUT
        /\ handler[c].got # <<>> /\ handler[c].remaining > 0
        /\ conn[c].s2cFin
        /\ FoundGet(d) /\ handler[d].pc = "done" /\ ~handler[d].raised
        /\ conn[d].sent = GetReply(d)

\* C18: no handler is ended part of the way: whatever happens to the
\* server (stop(), KeyboardInterrupt, the main thread returning), a
\* handler that was started is waiting, working or has returned.
C18_HandlersRunToCompletion ==
    \A c \in Conns : handler[c].pc # "killed"

\* Whether the handler of c waits in recv for a peer that has sent all it
\* is going to send for now and has not closed.
Blocked(c) ==
    /\ \/ handler[c].pc \in {"command", "size"}
       \/ handler[c].pc = "recv" /\ handler[c].remaining > 0
    /\ conn[c].c2s = <<>>
    /\ ~conn[c].c2sFin

\* C19: while a handler is blocked, the accept loop can take the oldest
\* waiting connection, and a handler of another connection that is
\* sending a file can send its next chunk.
C19_ListenerNeverWaits ==
    \A c, d \in Conns :
        (Blocked(c) /\ d # c /\ server = "listening")
        => /\ (/\ handler[d].pc = "backlog"
               /\ \A e \in Conns : e < d => handler[e].pc # "backlog")
              => ENABLED accept(d)
           /\ handler[d].pc = "send" => ENABLED serve_get_loop(d)

\* A PUT handler is blocked in its receive loop, its peer having sent two
\* of five bytes and gone quiet; the connection that came after it has
\* been accepted, served the whole of the file b and closed.
C19_Witness ==
    \E c, d \in Conns :
        /\ c < d
        /\ Blocked(c) /\ handler[c].pc = "recv" /\ BLen(handler[c].got) = 2
        /\ Head(cl[1].jobs).op = "stall"
        /\ FoundGet(d) /\ handler[d].pc = "done"
        /\ conn[d].sent = GetReply(d)

\* ------------------------------------------------ claims on negative sizes

\* Whether the handler of c is a PUT that read a size line with a negative
\* integer.
NegativeSize(c) ==
    /\ handler[c].cmd = tPUT
    /\ has_size(handler[c].size_line)
    /\ IntOk(SizeRead(c))
    /\ IntVal(SizeRead(c)) < 0

\* C20: a PUT whose size line names a negative integer never gets to open
\* its target or to its receive loop, leaves the file system as it was at
\* the start, and once it has returned has answered SEND_SIZE and then an
\* error line.
C20_NegativeSizeRefused ==
    \A c \in Conns :
        NegativeSize(c)
        => /\ handler[c].pc \notin {"recv", "reply"}
           /\ fs = InitFs
           /\ (handler[c].pc = "done" /\ ~handler[c].raised)
              => BDrop(conn[c].sent, BLen(Line(tSEND_SIZE)))
                    \in {Line(tERR_Invalid_size), Line(tERR_Missing_size),
                         Line(tERR_Incomplete)}

\* --------------------------------------- claims on upload_file's payload

\* The payload bytes upload_file of process p has sent: what it sent after
\* its SIZE line.
UploadSent(p) == Following(cl[p].c)

\* C21 (as stated): no PUT exchange of upload_file reaches a state where
\* the client has sent all it sends and waits for the status line while
\* the handler waits for more payload on the connection, which is still
\* open.
C21_NoMutualWait ==
    \A p \in Procs :
        cl[p].pc = "put_status"
        => ~(/\ handler[cl[p].c].pc = "recv"
             /\ handler[cl[p].c].remaining > 0
             /\ conn[cl[p].c].c2s = <<>>
             /\ ~conn[cl[p].c].c2sFin)

\* C29 (as stated): upload_file never sends more payload bytes than the
\* size it declared on its SIZE line.
C29_SendsAtMostDeclared ==
    \A p \in Procs :
        cl[p].pc \in {"put_send", "put_status"}
        => BLen(UploadSent(p)) <= cl[p].size

\* ------------------------------------------- claims on concurrent PUTs

\* The handler of c served a PUT and answered it OK.
PutOk(c) ==
    /\ handler[c].pc = "done"
    /\ conn[c].sent = BCat(Line(tSEND_SIZE), Line(tOK))

\* The payload of the PUT on c: the first n bytes after its size line.
PutPayload(c) == BTake(Following(c), IntVal(SizeRead(c)))

\* C22 (as stated): when two connections PUT to the same name and both are
\* answered OK, the file stored under the name holds the payload of one of
\* the two, however the handlers' steps interleave.
C22_OnePayloadStored ==
    \A c, d \in Conns :
        (c < d /\ PutOk(c) /\ PutOk(d) /\ Target(c) = Target(d))
        => fs[Target(c)].data \in {PutPayload(c), PutPayload(d)}

\* C22: when two connections PUT to the same name, both are answered OK,
\* and neither handler had the file open while the other opened or wrote
\* it, the file stored under the name holds the payload of one of the
\* two.
C22_SerialPutsKeepOnePayload ==
    \A c, d \in Conns :
        (/\ c < d /\ PutOk(c) /\ PutOk(d) /\ Target(c) = Target(d)
         /\ ~handler[c].disturbed /\ ~handler[d].disturbed)
        => fs[Target(c)].data \in {PutPayload(c), PutPayload(d)}

\* Two PUTs to n, one after the other, both answered OK: the file holds
\* the 4097 bytes of the one served last.
C22_Witness ==
    \E c, d \in Conns :
        /\ c # d /\ PutOk(c) /\ PutOk(d)
        /\ handler[c].filename = nN /\ handler[d].filename = nN
        /\ ~handler[c].disturbed /\ ~handler[d].disturbed
        /\ BLen(PutPayload(c)) = 5000
        /\ PutPayload(d) = OtherPayload
        /\ fs[Target(d)].data = OtherPayload

\* ------------------------------------ claims on one command a connection

\* The handler of c has ended: it returned, the process ended under it, or
\* the connection was never accepted.
Ended(c) == handler[c].pc \in {"done", "killed", "refused"}

\* C23: a handler that has ended has closed its socket; from then on it
\* changes nothing, sends nothing and reads nothing, whatever the peer
\* sent or sends after its command; a handler that has read its command
\* line never reads a command line again and keeps its command and
\* argument; and a handler that is sending a file has received no payload.
C23_OneCommandPerConnection ==
    /\ [](\A c \in Conns :
            /\ Ended(c) => conn[c].s2cFin
            /\ handler[c].pc = "send" => handler[c].got = <<>>)
    /\ [][\A c \in Conns :
            /\ Ended(c)
               => /\ handler'[c] = handler[c]
                  /\ conn'[c].sent = conn[c].sent
                  /\ BPrefix(conn[c].c2s, conn'[c].c2s)
            /\ handler[c].pc \notin {"backlog", "command"}
               => /\ handler'[c].pc \notin {"backlog", "command"}
                  /\ handler'[c].cmd = handler[c].cmd
                  /\ handler'[c].filename = handler[c].filename]_vars

\* The peer sent `GET no` and `GET a` and closed: the handler has answered
\* NOT_FOUND and nothing else and has returned, and the second line is
\* unread.
C23_Witness ==
    \E c \in Conns :
        /\ handler[c].pc = "done"
        /\ handler[c].filename = nNo
        /\ conn[c].sent = Line(tNOT_FOUND)
        /\ conn[c].c2s = Line(tGET \o <<" ">> \o nA)
        /\ conn[c].c2sFin

\* ------------------------------------------ claims on a short download

\* The payload bytes put on connection c for the client: those after the
\* header line's newline.
DeliveredPayload(c) ==
    IF BFind(Delivered(c), NL) = 0 THEN <<>>
    ELSE BDrop(Delivered(c), BFind(Delivered(c), NL))

\* The size the header line on c declares.
DeclaredSize(c) ==
    IntVal(SubSeq(ResponseLine(c), Len(tFOUND) + 1, Len(ResponseLine(c))))

\* The i-th call of process p was a download_file whose header line was
\* `FOUND <size>` and whose connection was closed by the other side after
\* fewer than size payload bytes.
CutShort(p, i) ==
    /\ cl[p].results[i].job.op = "download"
    /\ FoundHeader(ResponseLine(cl[p].results[i].c))
    /\ BLen(DeliveredPayload(cl[p].results[i].c))
           < DeclaredSize(cl[p].results[i].c)

\* The local path of a download_file call.
Destination(job) == IF job.local = None THEN job.remote ELSE job.local

\* C24: a download_file whose connection was closed after `FOUND <size>`
\* and fewer than size payload bytes has returned reporting the download
\* incomplete, its local file holds exactly the payload bytes that were
\* delivered, the call is not queued again, and there are no more
\* connections than calls.
C24_ShortDownloadReported ==
    \A p \in Procs : \A i \in DOMAIN cl[p].results :
        CutShort(p, i)
        => /\ ~cl[p].results[i].complete
           /\ local[Destination(cl[p].results[i].job)].data
                  = DeliveredPayload(cl[p].results[i].c)
           /\ Len(cl[p].results) + Len(cl[p].jobs) = Len(scenario.jobs[p])
           /\ Len(conn) <= Len(scenario.jobs[1]) + Len(scenario.jobs[2])

\* download_file got `FOUND 5`, the bytes ab and the end of the stream: it
\* has returned incomplete with ab in its local file, over one connection.
C24_Witness ==
    \E p \in Procs :
        /\ cl[p].results # <<>>
        /\ CutShort(p, 1)
        /\ DeclaredSize(cl[p].results[1].c) = 5
        /\ ~cl[p].results[1].complete
        /\ local[nD].data = Compress(<<"a", "b">>)
        /\ cl[p].pc = "idle" /\ cl[p].jobs = <<>>
        /\ Len(conn) = 1

\* The same against a FileServer: an upload to a truncated the file while
\* the handler was sending it, the handler sent less than the 8200 bytes
\* it declared and closed, and download_file has returned incomplete.
C24_ServerWitness ==
    \E p \in Procs :
        /\ scenario.kind = "race"
        /\ cl[p].results # <<>>
        /\ CutShort(p, 1)
        /\ ~cl[p].results[1].complete
        /\ local[nD].data = DeliveredPayload(cl[p].results[1].c)

\* ---------------------------------------------- claims on the argument

\* The text of s after its first space: nothing when s holds no space.
AfterFirstSpace(s) ==
    IF \A i \in 1..Len(s) : s[i] # " " THEN <<>>
    ELSE SubSeq(s,
                1 + CHOOSE i \in 1..Len(s) :
                        s[i] = " " /\ \A j \in 1..(i - 1) : s[j] # " ",
                Len(s))

\* The handler of c has taken GET, PUT or MSG from its first line.
Parsed(c) == handler[c].cmd \in {tGET, tPUT, tMSG}

\* C25 (as stated): the argument the handler of a GET, PUT or MSG works
\* with is the text of the first line after its first space, as the peer
\* sent it.
C25_ArgumentVerbatim ==
    \A c \in Conns :
        Parsed(c)
        => handler[c].filename = AfterFirstSpace(decode(BeforeNewline(c)))

\* C25: the argument the handler of a GET, PUT or MSG works with is the
\* text after the first space of the first line with the whitespace at its
\* two ends removed: whitespace after that space is kept, whitespace at the
\* end of the line is not, and a line with no space gives the empty text.
C25_ArgumentOfTrimmedLine ==
    \A c \in Conns :
        Parsed(c)
        => handler[c].filename
               = AfterFirstSpace(strip(decode(BeforeNewline(c))))

\* The peer sent `GET  a ` with two spaces before the name and one after:
\* the handler looked for the name ` a` and answered NOT_FOUND.
C25_Witness ==
    \E c \in Conns :
        /\ decode(BeforeNewline(c)) = <<"G", "E", "T", " ", " ", "a", " ">>
        /\ handler[c].cmd = tGET
        /\ handler[c].filename = <<" ", "a">>
        /\ handler[c].pc = "done"
        /\ conn[c].sent = Line(tNOT_FOUND)

\* ------------------------------------------------- claims on messages

\* The handler of c, on the server that knows MSG, took MSG from its first
\* line.
MessageTaken(c) ==
    /\ server_of(c) = "server2"
    /\ handler[c].cmd = tMSG
    /\ ~handler[c].raised /\ handler[c].pc # "killed"

\* The one line that answers the message of c.
ReplyLine(c) ==
    Line(tReply \o AfterFirstSpace(strip(decode(BeforeNewline(c)))))

\* C26: on the server that knows MSG, a handler that took MSG from its
\* first line has sent the one reply line with the text, has returned and
\* closed, and has left unread what the peer sent after the line; the step
\* in which it does so leaves the storage as it was, and with only
\* messages sent the storage is as at the start.
C26_MessageReply ==
    /\ [](/\ \A c \in Conns :
               MessageTaken(c)
               => /\ handler[c].pc = "done"
                  /\ conn[c].sent = ReplyLine(c)
                  /\ conn[c].s2cFin
                  /\ conn[c].c2s = AfterFirstLine(c)
          /\ scenario.kind = "message" => fs = InitFs)
    /\ [][\A c \in Conns :
            (/\ server_of(c) = "server2"
             /\ handler[c].pc = "command" /\ handler'[c].cmd = tMSG)
            => /\ fs' = fs
               /\ handler'[c].pc = "done"
               /\ conn'[c].sent = Line(tReply \o handler'[c].filename)]_vars

\* The peer sent `MSG hi` and `GET a` to the second server and closed: the
\* handler has sent the reply with hi and nothing else and has returned,
\* the second line is unread, and the storage is as at the start.
C26_Witness ==
    \E c \in Conns :
        /\ MessageTaken(c)
        /\ handler[c].pc = "done"
        /\ conn[c].sent = Line(tReply \o nHi)
        /\ conn[c].c2s = Line(tGET \o <<" ">> \o nA)
        /\ fs = InitFs

\* ------------------------------------- claims on upload_file's handshake

\* The connections upload_file has made: that of a call under way and
\* those of the calls that have returned.
UploadConns ==
    {cl[p].c : p \in {q \in Procs : cl[q].pc \in
                         {"put_response", "put_send", "put_status"}}}
    \cup UNION {{cl[p].results[i].c :
                    i \in {j \in DOMAIN cl[p].results :
                              /\ cl[p].results[j].job.op = "upload"
                              /\ cl[p].results[j].c > 0}} : p \in Procs}

\* C27: on a connection of upload_file, the client has sent something
\* after its PUT line only if the response line it got is SEND_SIZE; a
\* call past the response has sent its SIZE line with the size of the
\* local file; the step in which upload_file has its response line sends
\* the SIZE line if the line is SEND_SIZE and otherwise sends nothing and
\* returns, closing the socket; and an upload_file of a path that is no
\* file has returned without a connection.
C27_SizeOnlyAfterSendSize ==
    /\ [](/\ \A c \in UploadConns :
               AfterFirstLine(c) # <<>> => ResponseLine(c) = tSEND_SIZE
          /\ \A p \in Procs :
               cl[p].pc \in {"put_send", "put_status"}
               => /\ ResponseLine(cl[p].c) = tSEND_SIZE
                  /\ BPrefix(Line(tSIZE \o IntStr(cl[p].size)),
                             AfterFirstLine(cl[p].c))
          /\ scenario.kind = "nofile"
             => /\ conn = <<>>
                /\ \A p \in Procs : \A i \in DOMAIN cl[p].results :
                      cl[p].results[i].c = 0)
    /\ [][\A p \in Procs :
            (cl[p].pc = "put_response" /\ cl'[p].pc # "put_response")
            => IF ResponseLine(cl[p].c) = tSEND_SIZE
               THEN /\ cl'[p].pc = "put_send"
                    /\ conn'[cl[p].c].given =
                          BCat(conn[cl[p].c].given,
                               Line(tSIZE \o IntStr(cl[p].size)))
               ELSE /\ cl'[p].pc = "idle"
                    /\ conn'[cl[p].c].given = conn[cl[p].c].given
                    /\ conn'[cl[p].c].c2sFin]_vars

\* upload_file got `ERR x` for its PUT line: it has returned, having sent
\* the PUT line and nothing else.
C27_Witness ==
    \E p \in Procs :
        /\ cl[p].results # <<>>
        /\ cl[p].results[1].job.op = "upload"
        /\ cl[p].results[1].c > 0
        /\ cl[p].results[1].line = <<"E", "R", "R", " ", "x">>
        /\ conn[cl[p].results[1].c].given = Line(tPUT \o <<" ">> \o nN)
        /\ conn[cl[p].results[1].c].c2sFin

\* ------------------------------------------ claims on the two variants

\* Both peers have sent their bytes and closed, the handlers of both have
\* returned, and the first connection is the first peer's.
TwinsDone ==
    /\ scenario.kind = "twin"
    /\ Len(conn) = 2
    /\ \A c \in Conns : handler[c].pc = "done" /\ conn[c].c2sFin

\* C28 (as stated): for the same bytes from the client the first server
\* and the third send the same response lines and have made the same
\* change to storage: the same target opened, the same bytes stored.
C28_VariantsAgree ==
    TwinsDone
    => /\ conn[1].sent = conn[2].sent
       /\ handler[1].safe_path = handler[2].safe_path
       /\ handler[1].got = handler[2].got

\* ------------------------------------------- claims on the loop counters

\* C30 (as stated): whenever a PUT handler is at its receive loop, or
\* download_file at its loop, with n the declared size: remaining is
\* between 0 and n, the bytes written so far and remaining add up to n,
\* and the file being written holds at most n bytes.
C30_RemainingWithinBounds ==
    /\ \A c \in Conns :
          handler[c].pc = "recv"
          => /\ 0 <= handler[c].remaining
             /\ handler[c].remaining <= handler[c].size
             /\ BLen(handler[c].got) + handler[c].remaining = handler[c].size
             /\ BLen(fs[handler[c].safe_path].data) <= handler[c].size
    /\ \A p \in Procs :
          cl[p].pc = "get_recv"
          => /\ 0 <= cl[p].remaining
             /\ cl[p].remaining <= cl[p].size
             /\ cl[p].off + cl[p].remaining = cl[p].size
             /\ BLen(local[cl[p].path].data) <= cl[p].size

====
